---- MODULE Spec2Model ----
(***************************************************************************)
(* Model of the JobhubHq backend:                                          *)
(*   backend/app/routers/recruiter.py   calculate_candidate_match_score,   *)
(*       generate_match_reasons, generate_red_flags, rank_candidates and   *)
(*       the other recruiter endpoints                                     *)
(*   backend/app/services/scraping.py   calculate_job_match_score          *)
(*   backend/app/routers/candidates.py  update_candidate_profile           *)
(*   backend/app/routers/auto_apply.py  the auto-apply session registry    *)
(*       and its background task                                           *)
(*   backend/app/routers/applications.py    job application handlers       *)
(*   backend/app/routers/career_roadmap.py  roadmap creation and progress  *)
(*                                                                         *)
(* Python values are modelled as follows.                                  *)
(*   str            a tuple of one-character strings, so that lower() and  *)
(*                  the `in` substring test are computed, not assumed      *)
(*   Optional[T]    <<>> for None, <<v>> for a value v                     *)
(*   float          an exact fraction [n, d]; for every operand the code   *)
(*                  can form here (ratios k/n with n < 200, the weights    *)
(*                  40/30/20/10) IEEE double arithmetic and exact          *)
(*                  arithmetic agree on int(score) and on the comparisons  *)
(*   raise          a result record [ok |-> FALSE, error |-> ...]          *)
(***************************************************************************)
EXTENDS Integers, Sequences, FiniteSets, TLC

VARIABLES candidates, job_postings, response, call

\* auto_apply.py: the module-level dict, the tasks handed to BackgroundTasks
\* and not yet run, and the number of start requests answered 200 per user
VARIABLES auto_apply_sessions, background_tasks, successful_starts

\* the job_applications table and the last value of its id sequence
VARIABLES job_applications, application_seq

\* the career_roadmaps and interviews tables
VARIABLES career_roadmaps, interviews

\* datetime.utcnow() in whole seconds: the session key drops the fraction,
\* and nothing else compares two times of the same second
VARIABLES now

matching_vars == <<candidates, job_postings, call>>

auto_apply_vars == <<auto_apply_sessions, background_tasks, successful_starts>>

application_vars == <<job_applications, application_seq>>

table_vars == <<career_roadmaps, interviews>>

\* what the matching and ranking handlers never touch
other_vars == <<auto_apply_vars, application_vars, table_vars, now>>

vars == <<candidates, job_postings, response, call, auto_apply_sessions, background_tasks, successful_starts,
          job_applications, application_seq, career_roadmaps, interviews, now>>

(***************************************************************************)
(* Python values                                                           *)
(***************************************************************************)
None == <<>>

Some(v) == <<v>>

Val(x) == x[1]

\* `x or []` for an Optional list
OrEmpty(x) == IF x = None THEN <<>> ELSE Val(x)

\* truth value of an Optional[str] whose content is opaque ("" is the empty string)
Truthy(x) == x # None /\ Val(x) # ""

\* truth value of an Optional[bool]
TruthyBool(x) == x # None /\ Val(x)

Range(s) == {s[i] : i \in 1..Len(s)}

Min(a, b) == IF a <= b THEN a ELSE b

UpperCase == <<"A", "B", "C", "D", "E", "F", "G", "H", "I", "J", "K", "L", "M", "N", "O", "P", "Q", "R", "S", "T", "U", "V", "W", "X", "Y", "Z">>

LowerCase == <<"a", "b", "c", "d", "e", "f", "g", "h", "i", "j", "k", "l", "m", "n", "o", "p", "q", "r", "s", "t", "u", "v", "w", "x", "y", "z">>

Digits == <<"0", "1", "2", "3", "4", "5", "6", "7", "8", "9">>

LowerChar(c) == IF \E i \in 1..26 : UpperCase[i] = c THEN LowerCase[CHOOSE i \in 1..26 : UpperCase[i] = c] ELSE c

UpperChar(c) == IF \E i \in 1..26 : LowerCase[i] = c THEN UpperCase[CHOOSE i \in 1..26 : LowerCase[i] = c] ELSE c

\* str.lower()
Lower(s) == [i \in 1..Len(s) |-> LowerChar(s[i])]

\* str.upper()
Upper(s) == [i \in 1..Len(s) |-> UpperChar(s[i])]

\* `sub in s` for two strings
Contains(sub, s) == \E i \in 0..(Len(s) - Len(sub)) : \A k \in 1..Len(sub) : s[i + k] = sub[k]

(***************************************************************************)
(* Exact fractions standing for Python floats                              *)
(***************************************************************************)
Rat(n, d) == [n |-> n, d |-> d]

RAdd(a, b) == Rat(a.n * b.d + b.n * a.d, a.d * b.d)

RMulInt(a, k) == Rat(a.n * k, a.d)

RLeq(a, b) == a.n * b.d <= b.n * a.d

REq(a, b) == a.n * b.d = b.n * a.d

RMin(a, b) == IF RLeq(a, b) THEN a ELSE b

\* int(x): truncation toward zero
RTrunc(a) == IF a.n >= 0 THEN a.n \div a.d ELSE -((-a.n) \div a.d)

Return(v) == [ok |-> TRUE, value |-> v]

Raise(e) == [ok |-> FALSE, error |-> e]

(***************************************************************************)
(* recruiter.py: the candidate-to-job scorer                               *)
(***************************************************************************)
\* set(skill.lower() for skill in (candidate.skills or []))
candidate_skills(candidate) == {Lower(s) : s \in Range(OrEmpty(candidate.skills))}

\* set(req.lower() for req in (job.requirements or []))
job_requirements(job) == {Lower(r) : r \in Range(OrEmpty(job.requirements))}

MutSkillScoreListLen(candidate, job) ==
    LET C == candidate_skills(candidate)
        R == job_requirements(job)
    IN  IF C # {} /\ R # {}
        THEN RMin(RMulInt(Rat(Cardinality(C \cap R), Len(OrEmpty(job.requirements))), 40), Rat(40, 1))
        ELSE Rat(0, 1)

\* lines 312-319: the skill contribution
skill_score(candidate, job) ==
    LET C == candidate_skills(candidate)
        R == job_requirements(job)
    IN  IF C # {} /\ R # {}
        THEN RMin(RMulInt(Rat(Cardinality(C \cap R), Cardinality(R)), 40), Rat(40, 1))
        ELSE Rat(0, 1)

MutExpScoreOffByOne(candidate) == Min((Val(candidate.experience_years) - 1) * 6, 30)

MutExpScoreWeightFive(candidate) == Min(Val(candidate.experience_years) * 5, 30)

MutExpScoreUncapped(candidate) == Val(candidate.experience_years) * 6

\* lines 321-323: min(candidate.experience_years * 6, 30); the caller has
\* established that experience_years is an int
exp_score(candidate) == Min(Val(candidate.experience_years) * 6, 30)

\* lines 326-331
profile_items(candidate) == <<candidate.github_url, candidate.linkedin_url, candidate.resume_url, candidate.career_goals>>

MutCompletenessThreeItems(candidate) ==
    LET items == profile_items(candidate)
    IN  RMulInt(Rat(Cardinality({i \in 1..3 : Truthy(items[i])}), 3), 20)

\* lines 332-333: completeness * 20
completeness_score(candidate) ==
    LET items == profile_items(candidate)
    IN  RMulInt(Rat(Cardinality({i \in 1..Len(items) : Truthy(items[i])}), Len(items)), 20)

\* lines 335-337
remote_score(job) == IF TruthyBool(job.remote_ok) THEN 10 ELSE 0

\* lines 308-339; None * 6 raises TypeError
calculate_candidate_match_score(candidate, job) ==
    IF candidate.experience_years = None
    THEN Raise("TypeError")
    ELSE LET s1 == RAdd(Rat(0, 1), skill_score(candidate, job))
             s2 == RAdd(s1, Rat(exp_score(candidate), 1))
             s3 == RAdd(s2, completeness_score(candidate))
             s4 == RAdd(s3, Rat(remote_score(job), 1))
         IN  Return(Min(RTrunc(s4), 100))

Reason(text) == [years |-> None, text |-> text]

\* f"{candidate.experience_years} years of relevant experience"
ExperienceReason(years) == [years |-> Some(years), text |-> " years of relevant experience"]

AppendIf(seq, cond, item) == IF cond THEN Append(seq, item) ELSE seq

MutReasonsExcellentFrom80(candidate, job, score) ==
    IF candidate.experience_years = None
    THEN Raise("TypeError")
    ELSE LET r1 == IF score >= 80
                   THEN <<Reason("Excellent skills alignment with job requirements")>>
                   ELSE IF score > 60
                        THEN <<Reason("Good skills match with most requirements")>>
                        ELSE <<>>
             r2 == AppendIf(r1, Val(candidate.experience_years) >= 3, ExperienceReason(Val(candidate.experience_years)))
             r3 == AppendIf(r2, Truthy(candidate.github_url), Reason("Active GitHub profile with code samples"))
             r4 == AppendIf(r3, Truthy(candidate.linkedin_url), Reason("Complete LinkedIn professional profile"))
             r5 == AppendIf(r4, TruthyBool(job.remote_ok), Reason("Open to remote work opportunities"))
         IN  Return(r5)

\* lines 341-362; None >= 3 raises TypeError
generate_match_reasons(candidate, job, score) ==
    IF candidate.experience_years = None
    THEN Raise("TypeError")
    ELSE LET r1 == IF score > 80
                   THEN <<Reason("Excellent skills alignment with job requirements")>>
                   ELSE IF score > 60
                        THEN <<Reason("Good skills match with most requirements")>>
                        ELSE <<>>
             r2 == AppendIf(r1, Val(candidate.experience_years) >= 3, ExperienceReason(Val(candidate.experience_years)))
             r3 == AppendIf(r2, Truthy(candidate.github_url), Reason("Active GitHub profile with code samples"))
             r4 == AppendIf(r3, Truthy(candidate.linkedin_url), Reason("Complete LinkedIn professional profile"))
             r5 == AppendIf(r4, TruthyBool(job.remote_ok), Reason("Open to remote work opportunities"))
         IN  Return(r5)

developer == <<"d", "e", "v", "e", "l", "o", "p", "e", "r">>

MutRedFlagsResumeNoneOnly(candidate, job) ==
    LET f1 == AppendIf(<<>>, candidate.resume_url = None, "No resume uploaded")
        f2 == AppendIf(f1, OrEmpty(candidate.skills) = <<>>, "No skills listed in profile")
        f3 == AppendIf(f2, candidate.experience_years = Some(0), "No professional experience listed")
        f4 == AppendIf(f3, ~Truthy(candidate.github_url) /\ Contains(developer, Lower(job.title)), "No GitHub profile for technical role")
    IN  Return(f4)

MutRedFlagsCaseSensitiveTitle(candidate, job) ==
    LET f1 == AppendIf(<<>>, ~Truthy(candidate.resume_url), "No resume uploaded")
        f2 == AppendIf(f1, OrEmpty(candidate.skills) = <<>>, "No skills listed in profile")
        f3 == AppendIf(f2, candidate.experience_years = Some(0), "No professional experience listed")
        f4 == AppendIf(f3, ~Truthy(candidate.github_url) /\ Contains(developer, job.title), "No GitHub profile for technical role")
    IN  Return(f4)

\* lines 364-380; `not candidate.skills` holds for None and for []
generate_red_flags(candidate, job) ==
    LET f1 == AppendIf(<<>>, ~Truthy(candidate.resume_url), "No resume uploaded")
        f2 == AppendIf(f1, OrEmpty(candidate.skills) = <<>>, "No skills listed in profile")
        f3 == AppendIf(f2, candidate.experience_years = Some(0), "No professional experience listed")
        f4 == AppendIf(f3, ~Truthy(candidate.github_url) /\ Contains(developer, Lower(job.title)), "No GitHub profile for technical role")
    IN  Return(f4)

MutRecommendInclusive70(match_score) ==
    IF match_score >= 70 THEN "recommend" ELSE IF match_score > 50 THEN "maybe" ELSE "skip"

\* line 159
interview_recommendation(match_score) ==
    IF match_score > 70 THEN "recommend" ELSE IF match_score > 50 THEN "maybe" ELSE "skip"

(***************************************************************************)
(* scraping.py: the job-to-profile scorer                                  *)
(***************************************************************************)
\* dict.get(key, default); <<>> stands for a missing key
Get(x, default) == IF x = None THEN default ELSE Val(x)

IsDigit(c) == \E i \in 1..10 : Digits[i] = c

DigitValue(c) == (CHOOSE i \in 1..10 : Digits[i] = c) - 1

RECURSIVE CommaGroupsEnd(_, _)
\* (?:,\d{3})* matched greedily from position q; the position of the last character matched
CommaGroupsEnd(s, q) ==
    IF q + 3 <= Len(s) /\ s[q] = "," /\ \A k \in 1..3 : IsDigit(s[q + k])
    THEN CommaGroupsEnd(s, q + 4)
    ELSE q - 1

RECURSIVE DigitsToInt(_, _, _, _)
\* int(group.replace(",", "")) for the characters s[i..j]
DigitsToInt(s, i, j, acc) ==
    IF i > j THEN acc
    ELSE IF s[i] = "," THEN DigitsToInt(s, i + 1, j, acc)
         ELSE DigitsToInt(s, i + 1, j, acc * 10 + DigitValue(s[i]))

\* re.findall(r'\$?(\d{1,3}(?:,\d{3})*)', text)[0] as an Optional[int]: the
\* leftmost match captures from the first digit of the text, takes at most
\* three digits and then every following group of a comma and three digits
first_salary_number(text) ==
    IF \E i \in 1..Len(text) : IsDigit(text[i])
    THEN LET p == CHOOSE i \in 1..Len(text) : IsDigit(text[i]) /\ \A k \in 1..(i - 1) : ~IsDigit(text[k])
             run == CHOOSE m \in 1..3 : (\A k \in 0..(m - 1) : p + k <= Len(text) /\ IsDigit(text[p + k]))
                                        /\ (m = 3 \/ p + m > Len(text) \/ ~IsDigit(text[p + m]))
             last == CommaGroupsEnd(text, p + run)
         IN  Some(DigitsToInt(text, p, last, 0))
    ELSE None

remote == <<"r", "e", "m", "o", "t", "e">>

entry == <<"e", "n", "t", "r", "y">>

mid == <<"m", "i", "d">>

senior == <<"s", "e", "n", "i", "o", "r">>

\* lines 198-200 (filter_jobs_by_criteria): the requirements joined by spaces,
\* a space, and the description, all lower-cased
RECURSIVE join_requirements(_)
join_requirements(reqs) ==
    IF reqs = <<>> THEN <<>>
    ELSE IF Len(reqs) = 1 THEN reqs[1]
         ELSE reqs[1] \o <<" ">> \o join_requirements(Tail(reqs))

job_text(job) ==
    Lower(join_requirements(Get(job.requirements, <<>>))) \o <<" ">> \o Lower(Get(job.description, <<>>))

MutSkillsMatchedExact(job, user_profile) ==
    LET user_skills == [i \in 1..Len(Get(user_profile.skills, <<>>)) |-> Lower(Get(user_profile.skills, <<>>)[i])]
        reqs == [i \in 1..Len(Get(job.requirements, <<>>)) |-> Lower(Get(job.requirements, <<>>)[i])]
        job_description == Lower(Get(job.description, <<>>))
    IN  Cardinality({i \in 1..Len(user_skills) :
            (\E r \in 1..Len(reqs) : user_skills[i] = reqs[r]) \/ user_skills[i] = job_description})

\* lines 218-225
skills_matched(job, user_profile) ==
    LET user_skills == [i \in 1..Len(Get(user_profile.skills, <<>>)) |-> Lower(Get(user_profile.skills, <<>>)[i])]
        reqs == [i \in 1..Len(Get(job.requirements, <<>>)) |-> Lower(Get(job.requirements, <<>>)[i])]
        job_description == Lower(Get(job.description, <<>>))
    IN  Cardinality({i \in 1..Len(user_skills) :
            (\E r \in 1..Len(reqs) : Contains(user_skills[i], reqs[r])) \/ Contains(user_skills[i], job_description)})

\* lines 227-229
job_skills_score(job, user_profile) ==
    LET n == Len(Get(user_profile.skills, <<>>))
    IN  IF n > 0 THEN RMulInt(Rat(skills_matched(job, user_profile), n), 40) ELSE Rat(0, 1)

MutLocationRequiresPreference(job, user_profile) ==
    LET preferred_locations == Get(user_profile.preferred_locations, <<>>)
        job_location == Lower(Get(job.location, <<>>))
    IN  IF (\E i \in 1..Len(preferred_locations) : Contains(Lower(preferred_locations[i]), job_location))
           \/ Contains(remote, job_location)
        THEN 20 ELSE 0

\* lines 231-236
location_score(job, user_profile) ==
    LET preferred_locations == Get(user_profile.preferred_locations, <<>>)
        job_location == Lower(Get(job.location, <<>>))
    IN  IF preferred_locations = <<>>
           \/ (\E i \in 1..Len(preferred_locations) : Contains(Lower(preferred_locations[i]), job_location))
           \/ Contains(remote, job_location)
        THEN 20 ELSE 0

MutExperienceLevelPerBucket(job, user_profile) ==
    LET user_experience == Get(user_profile.experience_years, 0)
        job_experience == Lower(Get(job.experience_level, <<>>))
    IN  (IF Contains(entry, job_experience) /\ user_experience <= 2 THEN 20 ELSE 0)
        + (IF Contains(mid, job_experience) /\ 2 <= user_experience /\ user_experience <= 5 THEN 20 ELSE 0)
        + (IF Contains(senior, job_experience) /\ user_experience >= 5 THEN 20 ELSE 0)

\* lines 238-245
experience_level_score(job, user_profile) ==
    LET user_experience == Get(user_profile.experience_years, 0)
        job_experience == Lower(Get(job.experience_level, <<>>))
    IN  IF (Contains(entry, job_experience) /\ user_experience <= 2)
           \/ (Contains(mid, job_experience) /\ 2 <= user_experience /\ user_experience <= 5)
           \/ (Contains(senior, job_experience) /\ user_experience >= 5)
        THEN 20 ELSE 0

\* lines 247-252
company_score(job, user_profile) ==
    LET preferred_companies == Get(user_profile.preferred_companies, <<>>)
        job_company == Lower(Get(job.company, <<>>))
    IN  IF preferred_companies = <<>>
           \/ (\E i \in 1..Len(preferred_companies) : Contains(Lower(preferred_companies[i]), job_company))
        THEN 10 ELSE 0

MutSalaryStrictFloor(job, user_profile) ==
    LET min_salary_preference == Get(user_profile.min_salary, 0)
        salary_number == first_salary_number(Get(job.salary_range, <<>>))
    IN  IF salary_number # None
        THEN (IF Val(salary_number) > min_salary_preference THEN 10 ELSE 0)
        ELSE (IF min_salary_preference = 0 THEN 10 ELSE 0)

\* lines 254-264
salary_score(job, user_profile) ==
    LET min_salary_preference == Get(user_profile.min_salary, 0)
        salary_number == first_salary_number(Get(job.salary_range, <<>>))
    IN  IF salary_number # None
        THEN (IF Val(salary_number) >= min_salary_preference THEN 10 ELSE 0)
        ELSE (IF min_salary_preference = 0 THEN 10 ELSE 0)

\* lines 212-266; the float result as an exact fraction
calculate_job_match_score(job, user_profile) ==
    LET s1 == RAdd(Rat(0, 1), job_skills_score(job, user_profile))
        s2 == RAdd(s1, Rat(location_score(job, user_profile), 1))
        s3 == RAdd(s2, Rat(experience_level_score(job, user_profile), 1))
        s4 == RAdd(s3, Rat(company_score(job, user_profile), 1))
        s5 == RAdd(s4, Rat(salary_score(job, user_profile), 1))
    IN  RMin(s5, Rat(100, 1))

(***************************************************************************)
(* Bounds and the input domains drawn from them                            *)
(***************************************************************************)
MaxYears == 6

MaxCandidates == 22

MaxJobs == 1

\* the steps by which the profiles of a seeded table cycle
Strides == {0, 1}

Python == <<"P", "y", "t", "h", "o", "n">>

PYTHON == <<"P", "Y", "T", "H", "O", "N">>

React == <<"R", "e", "a", "c", "t">>

AWS == <<"A", "W", "S">>

Java == <<"J", "a", "v", "a">>

JavaScript == <<"J", "a", "v", "a", "S", "c", "r", "i", "p", "t">>

\* CandidateUpdate.experience_years is Optional[int] with no range check
Years == {-1} \cup 0..MaxYears

SkillLists == {<<>>, <<Python>>, <<PYTHON, React>>, <<React, Lower(Python), AWS>>, <<Java, Python, Java>>}

RequirementLists == {<<>>, <<Lower(Python)>>, <<Python, React, AWS>>, <<React, Lower(React), Java>>}

SeniorDeveloper == <<"S", "e", "n", "i", "o", "r", " ">> \o Upper(developer)

Analyst == <<"A", "n", "a", "l", "y", "s", "t">>

Titles == {SeniorDeveloper, Analyst}

CandidateDomain ==
    [id : {1}, user_id : {3},
     skills : {None} \cup {Some(l) : l \in SkillLists},
     experience_years : {None} \cup {Some(y) : y \in Years},
     github_url : {None, Some("https://github.com/u")},
     linkedin_url : {None, Some("https://linkedin.com/in/u")},
     resume_url : {None, Some(""), Some("/uploads/resume.pdf")},
     career_goals : {None, Some("Become a staff engineer")}]

JobDomain ==
    [title : Titles,
     requirements : {None} \cup {Some(l) : l \in RequirementLists},
     remote_ok : {None, Some(FALSE), Some(TRUE)}]


(***************************************************************************)
(* recruiter.py: rank_candidates and the handlers that write its inputs    *)
(***************************************************************************)
QueryLimit == 20

TopN == 10

NoResponse == [status |-> 0]

HttpError(status, detail) == [status |-> status, detail |-> detail]

\* lines 148-160: one entry of ranked_candidates; the three calls have returned
candidate_data(candidate, job) ==
    LET match_score == calculate_candidate_match_score(candidate, job).value
    IN  [candidate_id |-> candidate.id,
         user_id |-> candidate.user_id,
         match_score |-> match_score,
         skills |-> OrEmpty(candidate.skills),
         experience_years |-> candidate.experience_years,
         github_url |-> candidate.github_url,
         linkedin_url |-> candidate.linkedin_url,
         resume_url |-> candidate.resume_url,
         match_reasons |-> generate_match_reasons(candidate, job, match_score).value,
         red_flags |-> generate_red_flags(candidate, job).value,
         interview_recommendation |-> interview_recommendation(match_score)]

RECURSIVE MutInsertDescBeforeTies(_, _)
MutInsertDescBeforeTies(sorted, e) ==
    IF sorted = <<>> THEN <<e>>
    ELSE IF Head(sorted).match_score > e.match_score
         THEN <<Head(sorted)>> \o MutInsertDescBeforeTies(Tail(sorted), e)
         ELSE <<e>> \o sorted

RECURSIVE InsertDesc(_, _)
\* place entry e behind every entry of the sorted list whose score is >= its own
InsertDesc(sorted, e) ==
    IF sorted = <<>> THEN <<e>>
    ELSE IF Head(sorted).match_score >= e.match_score
         THEN <<Head(sorted)>> \o InsertDesc(Tail(sorted), e)
         ELSE <<e>> \o sorted

RECURSIVE SortByScoreDesc(_)
\* line 165: list.sort(key=match_score, reverse=True); the sort is stable, and
\* reverse=True keeps the original order of equal keys
SortByScoreDesc(entries) ==
    IF entries = <<>> THEN <<>>
    ELSE InsertDesc(SortByScoreDesc(SubSeq(entries, 1, Len(entries) - 1)), entries[Len(entries)])

\* line 140: db.query(Candidate).limit(20).all(); rows come back in table order
query_candidates == SubSeq(candidates, 1, Min(Len(candidates), QueryLimit))

\* line 174: ranked_candidates[:10]
top_candidates(ranked) == SubSeq(ranked, 1, Min(Len(ranked), TopN))

\* lines 121-188: the response of rank_candidates
rank_candidates(current_user, job_id) ==
    IF current_user.user_type # "recruiter"
    THEN HttpError(403, "Recruiter access required")
    ELSE IF ~\E k \in 1..Len(job_postings) : job_postings[k].id = job_id /\ job_postings[k].recruiter_id = current_user.id
    THEN HttpError(404, "Job posting not found")
    ELSE LET job == job_postings[CHOOSE k \in 1..Len(job_postings) : job_postings[k].id = job_id /\ job_postings[k].recruiter_id = current_user.id]
             fetched == query_candidates
         IN  IF \E i \in 1..Len(fetched) : ~calculate_candidate_match_score(fetched[i], job).ok
                                            \/ ~generate_match_reasons(fetched[i], job, 0).ok
             THEN HttpError(500, "Failed to rank candidates")
             ELSE LET ranked == SortByScoreDesc([i \in 1..Len(fetched) |-> candidate_data(fetched[i], job)])
                  IN  [status |-> 200,
                       job_id |-> job_id,
                       job_title |-> job.title,
                       fetched |-> [i \in 1..Len(fetched) |-> fetched[i].id],
                       total_candidates |-> Len(ranked),
                       recommended_candidates |-> Cardinality({i \in 1..Len(ranked) : ranked[i].match_score > 70}),
                       ranked_candidates |-> top_candidates(ranked)]

MutRankCandidatesNormalisesRows(current_user, job_id) ==
    /\ response' = rank_candidates(current_user, job_id)
    /\ candidates' = [i \in 1..Len(candidates) |-> [candidates[i] EXCEPT !.skills = Some(OrEmpty(@))]]
    /\ UNCHANGED <<job_postings, call, other_vars>>

RankCandidates(current_user, job_id) ==
    /\ response' = rank_candidates(current_user, job_id)
    /\ UNCHANGED <<candidates, job_postings, call, other_vars>>

\* lines 22-56: verify_recruiter's HTTPException is raised inside the try and
\* caught by `except Exception`, so a non-recruiter is answered 500
CreateJobPosting(current_user, job_data) ==
    /\ Len(job_postings) < MaxJobs
    /\ IF current_user.user_type # "recruiter"
       THEN /\ response' = HttpError(500, "Failed to create job posting")
            /\ UNCHANGED job_postings
       ELSE LET db_job == [id |-> Len(job_postings) + 1,
                           recruiter_id |-> current_user.id,
                           title |-> job_data.title,
                           requirements |-> job_data.requirements,
                           remote_ok |-> job_data.remote_ok,
                           is_active |-> TRUE]
            IN  /\ job_postings' = Append(job_postings, db_job)
                /\ response' = [status |-> 200, job |-> db_job]
    /\ UNCHANGED <<candidates, call, other_vars>>

\* models.py lines 25-47: Candidate(user_id=...) with the column defaults
NewCandidate(id, user_id) ==
    [id |-> id, user_id |-> user_id, skills |-> Some(<<>>), experience_years |-> Some(0),
     github_url |-> None, linkedin_url |-> None, resume_url |-> None, career_goals |-> None]

\* candidates.py lines 61-64: setattr for every field the request body sets
ApplyUpdate(row, update_data) ==
    [f \in DOMAIN row |-> IF f \in DOMAIN update_data THEN update_data[f] ELSE row[f]]

\* candidates.py lines 43-77
UpdateCandidateProfile(current_user, profile_data) ==
    /\ IF current_user.user_type # "candidate"
       THEN /\ response' = HttpError(403, "Only candidates can update profile")
            /\ UNCHANGED candidates
       ELSE IF \E i \in 1..Len(candidates) : candidates[i].user_id = current_user.id
            THEN LET i == CHOOSE k \in 1..Len(candidates) : candidates[k].user_id = current_user.id
                 IN  /\ candidates' = [candidates EXCEPT ![i] = ApplyUpdate(candidates[i], profile_data)]
                     /\ response' = [status |-> 200, candidate |-> candidates'[i]]
            ELSE LET row == ApplyUpdate(NewCandidate(Len(candidates) + 1, current_user.id), profile_data)
                 IN  /\ candidates' = Append(candidates, row)
                     /\ response' = [status |-> 200, candidate |-> row]
    /\ UNCHANGED <<job_postings, call, other_vars>>

(***************************************************************************)
(* Inputs of calculate_job_match_score                                     *)
(***************************************************************************)
\* a skill text that spans two requirements joined by a space
JavaScriptReact == JavaScript \o <<" ">> \o React

RemoteUS == <<"R", "e", "m", "o", "t", "e", " ", "U", "S">>

NewYork == <<"N", "e", "w", " ", "Y", "o", "r", "k">>

Austin == <<"A", "u", "s", "t", "i", "n">>

EntryLevel == <<"E", "n", "t", "r", "y", " ", "l", "e", "v", "e", "l">>

MidSenior == <<"M", "i", "d", "-", "S", "e", "n", "i", "o", "r">>

Acme == <<"A", "c", "m", "e">>

Globex == <<"G", "l", "o", "b", "e", "x">>

WeUseAWS == <<"W", "e", " ", "u", "s", "e", " ">> \o AWS

SalaryRange == <<"$", "8", "0", ",", "0", "0", "0", " ", "-", " ", "$", "1", "2", "0", ",", "0", "0", "0">>

SalaryMonthly == <<"$", "1", "5", "0", "0", "/", "m", "o">>

Competitive == <<"C", "o", "m", "p", "e", "t", "i", "t", "i", "v", "e">>

JobListingDomain ==
    [requirements : {Some(<<JavaScript, React>>), Some(<<Python, Lower(Python)>>)},
     description : {None, Some(WeUseAWS)},
     location : {None, Some(RemoteUS), Some(NewYork)},
     experience_level : {None, Some(EntryLevel), Some(MidSenior)},
     company : {None, Some(Acme)},
     salary_range : {Some(SalaryRange), Some(SalaryMonthly), Some(Competitive)}]

UserProfileDomain ==
    [skills : {None, Some(<<Java>>), Some(<<PYTHON, AWS>>), Some(<<React, Java, Python>>), Some(<<JavaScriptReact, Java>>)},
     preferred_locations : {None, Some(<<>>), Some(<<Austin, Lower(NewYork)>>)},
     experience_years : {None, Some(2), Some(5)},
     preferred_companies : {None, Some(<<Globex>>), Some(<<Upper(Acme)>>)},
     min_salary : {None, Some(0), Some(1000), Some(80000)}]

(***************************************************************************)
(* Direct calls of the scorers and of the reason and red-flag generators   *)
(***************************************************************************)
NoCall == [fn |-> "none"]

\* the caller holds its arguments; result is None until the function has returned
CandidateScoreCalls ==
    [fn : {"calculate_candidate_match_score"},
     candidate : CandidateDomain,
     job : {j \in JobDomain : j.title = SeniorDeveloper},
     result : {None}]

JobScoreCalls ==
    [fn : {"calculate_job_match_score"},
     job : JobListingDomain,
     user_profile : UserProfileDomain,
     result : {None}]

\* scores on both sides of the thresholds 60 and 80
ReasonScores == {-6, 0, 60, 61, 80, 81, 100}

\* generate_match_reasons reads experience_years, github_url, linkedin_url, remote_ok and score
MatchReasonCalls ==
    [fn : {"generate_match_reasons"},
     candidate : {c \in CandidateDomain : c.skills \in {None, Some(<<Python>>)} /\ c.resume_url = None /\ c.career_goals = None},
     job : {j \in JobDomain : j.title = SeniorDeveloper /\ j.requirements = None},
     score : ReasonScores,
     result : {None}]

\* generate_red_flags reads resume_url, skills, experience_years, github_url and job.title
RedFlagCalls ==
    [fn : {"generate_red_flags"},
     candidate : CandidateDomain,
     job : {j \in JobDomain : j.requirements = None /\ j.remote_ok = None},
     result : {None}]

CallMatchReasons ==
    /\ call.fn = "generate_match_reasons"
    /\ call.result = None
    /\ call' = [call EXCEPT !.result = Some(generate_match_reasons(call.candidate, call.job, call.score))]
    /\ UNCHANGED <<candidates, job_postings, response, other_vars>>

CallRedFlags ==
    /\ call.fn = "generate_red_flags"
    /\ call.result = None
    /\ call' = [call EXCEPT !.result = Some(generate_red_flags(call.candidate, call.job))]
    /\ UNCHANGED <<candidates, job_postings, response, other_vars>>

CallCandidateScore ==
    /\ call.fn = "calculate_candidate_match_score"
    /\ call.result = None
    /\ call' = [call EXCEPT !.result = Some(calculate_candidate_match_score(call.candidate, call.job))]
    /\ UNCHANGED <<candidates, job_postings, response, other_vars>>

CallJobScore ==
    /\ call.fn = "calculate_job_match_score"
    /\ call.result = None
    /\ call' = [call EXCEPT !.result = Some(calculate_job_match_score(call.job, call.user_profile))]
    /\ UNCHANGED <<candidates, job_postings, response, other_vars>>

\* the state of a freshly started process over empty tables
InitOther ==
    /\ auto_apply_sessions = <<>>
    /\ background_tasks = <<>>
    /\ successful_starts = <<>>
    /\ job_applications = <<>>
    /\ application_seq = 0
    /\ career_roadmaps = <<>>
    /\ interviews = <<>>
    /\ now = 0

InitScore ==
    /\ InitOther
    /\ candidates = <<>>
    /\ job_postings = <<>>
    /\ response = NoResponse
    /\ call \in CandidateScoreCalls \cup JobScoreCalls \cup MatchReasonCalls \cup RedFlagCalls

NextScore ==
    \/ CallCandidateScore
    \/ CallJobScore
    \/ CallMatchReasons
    \/ CallRedFlags

SpecScore == InitScore /\ [][NextScore]_vars

(***************************************************************************)
(* The service: stored rows, requests and responses                        *)
(***************************************************************************)
RecruiterA == [id |-> 1, user_type |-> "recruiter"]

RecruiterB == [id |-> 2, user_type |-> "recruiter"]

\* the candidate user who owns the row with id i of a seeded table
CandidateUser(i) == [id |-> i + 2, user_type |-> "candidate"]

\* the candidate users who send PUT /profile
Editors == {CandidateUser(1)}

\* well-formed stored profiles
SeedProfiles ==
    <<[skills |-> Some(<<Python, React>>), experience_years |-> Some(4),
       github_url |-> Some("https://github.com/a"), linkedin_url |-> Some("https://linkedin.com/in/a"),
       resume_url |-> Some("/uploads/a.pdf"), career_goals |-> Some("Lead a platform team")],
      [skills |-> Some(<<Lower(Python), Lower(React), Lower(AWS), Java>>), experience_years |-> Some(0),
       github_url |-> None, linkedin_url |-> None, resume_url |-> None, career_goals |-> None],
      [skills |-> Some(<<PYTHON, Lower(React), AWS>>), experience_years |-> Some(5),
       github_url |-> Some("https://github.com/c"), linkedin_url |-> Some("https://linkedin.com/in/c"),
       resume_url |-> Some("/uploads/c.pdf"), career_goals |-> None],
      [skills |-> Some(<<Python, AWS>>), experience_years |-> Some(6),
       github_url |-> Some("https://github.com/d"), linkedin_url |-> Some("https://linkedin.com/in/d"),
       resume_url |-> Some("/uploads/d.pdf"), career_goals |-> Some("")]>>

SeedRow(i, p) ==
    [id |-> i, user_id |-> CandidateUser(i).id, skills |-> p.skills, experience_years |-> p.experience_years,
     github_url |-> p.github_url, linkedin_url |-> p.linkedin_url, resume_url |-> p.resume_url,
     career_goals |-> p.career_goals]

\* a candidates table of n rows whose profiles follow the pattern (a, b)
SeedTable(n, a, b) == [i \in 1..n |-> SeedRow(i, SeedProfiles[((a * (i - 1) + b) % Len(SeedProfiles)) + 1])]

SeedTables == {SeedTable(n, a, b) : n \in 0..MaxCandidates, a \in Strides, b \in 0..(Len(SeedProfiles) - 1)}

JobData ==
    {[title |-> SeniorDeveloper, requirements |-> Some(<<Python, React, AWS>>), remote_ok |-> Some(TRUE)],
     [title |-> Analyst, requirements |-> Some(<<Lower(Python), Lower(React), Lower(AWS)>>), remote_ok |-> Some(FALSE)]}

\* request bodies of PUT /profile (CandidateUpdate, exclude_unset)
ProfileUpdates ==
    {[experience_years |-> None],
     [experience_years |-> Some(-1)],
     [skills |-> None, experience_years |-> Some(-1)]}

Init ==
    /\ InitOther
    /\ candidates \in SeedTables
    /\ job_postings = <<>>
    /\ response = NoResponse
    /\ call = NoCall

Next ==
    \/ \E current_user \in {RecruiterA, CandidateUser(1)}, job_data \in JobData : CreateJobPosting(current_user, job_data)
    \/ \E current_user \in Editors \cup {RecruiterA}, profile_data \in ProfileUpdates : UpdateCandidateProfile(current_user, profile_data)
    \/ \E current_user \in {RecruiterA, RecruiterB, CandidateUser(1)}, job_id \in 1..MaxJobs : RankCandidates(current_user, job_id)

Spec == Init /\ [][Next]_vars

(***************************************************************************)
(* Auto-apply sessions (routers/auto_apply.py)                             *)
(*                                                                         *)
(* Every handler and the background task are `async def` bodies without    *)
(* an await, so each runs to its end once started; a background task runs  *)
(* after its response was sent, and other requests may be served before.   *)
(* auto_apply_sessions is the dict as the sequence of its values in        *)
(* insertion order, each value carrying its key as session_id.  The        *)
(* preference keys the processing never reads (companies_blacklist and     *)
(* whitelist, salary_min, remote_only, cover_letter_template) are kept     *)
(* only inside `preferences`.                                              *)
(***************************************************************************)
MaxTime == 1

MaxStarts == 2

\* line 34: f"user_{current_user.id}_{int(datetime.utcnow().timestamp())}"
make_session_id(current_user, t) == [user_id |-> current_user.id, second |-> t]

HttpOk(body) == [status |-> 200] @@ body

\* the pending background tasks are a bag of session ids: each request has
\* its own BackgroundTasks object, and nothing orders the tasks of two requests
AddTask(tasks, session_id) ==
    IF session_id \in DOMAIN tasks
    THEN [tasks EXCEPT ![session_id] = @ + 1]
    ELSE [x \in DOMAIN tasks \cup {session_id} |-> IF x = session_id THEN 1 ELSE tasks[x]]

RemoveTask(tasks, session_id) ==
    IF tasks[session_id] > 1
    THEN [tasks EXCEPT ![session_id] = @ - 1]
    ELSE [x \in DOMAIN tasks \ {session_id} |-> tasks[x]]

\* position of the key in the dict, 0 when absent
SessionIndex(sessions, session_id) ==
    IF \E i \in 1..Len(sessions) : sessions[i].session_id = session_id
    THEN CHOOSE i \in 1..Len(sessions) : sessions[i].session_id = session_id
    ELSE 0

\* line 52: auto_apply_sessions[session_id] = session_data; an existing key
\* keeps its place and gets the new value
DictSet(sessions, session_data) ==
    LET i == SessionIndex(sessions, session_data.session_id)
    IN  IF i = 0 THEN Append(sessions, session_data) ELSE [sessions EXCEPT ![i] = session_data]

\* lines 36-50
new_session(current_user, preferences, t) ==
    [session_id |-> make_session_id(current_user, t),
     user_id |-> current_user.id,
     status |-> "active",
     preferences |-> preferences,
     started_at |-> t,
     applications_submitted |-> 0,
     daily_limit |-> Get(preferences.max_applications_per_day, 10),
     target_keywords |-> Get(preferences.keywords, <<>>),
     target_locations |-> Get(preferences.locations, <<>>),
     stopped_at |-> None,
     completed_at |-> None,
     error |-> None]

\* lines 18-76
StartAutoApplication(current_user, preferences) ==
    /\ Len(successful_starts) < MaxStarts
    /\ IF preferences.keywords = None
       THEN /\ response' = HttpError(400, "Missing required field: keywords")
            /\ UNCHANGED auto_apply_vars
       ELSE IF preferences.locations = None
       THEN /\ response' = HttpError(400, "Missing required field: locations")
            /\ UNCHANGED auto_apply_vars
       ELSE LET session_data == new_session(current_user, preferences, now)
            IN  /\ auto_apply_sessions' = DictSet(auto_apply_sessions, session_data)
                /\ background_tasks' = AddTask(background_tasks, session_data.session_id)
                /\ successful_starts' = Append(successful_starts, current_user.id)
                /\ response' = HttpOk([session_id |-> session_data.session_id, preferences |-> preferences])
    /\ UNCHANGED <<matching_vars, application_vars, table_vars, now>>

MutStopEveryUsersSessions(sessions, current_user, t) ==
    [i \in 1..Len(sessions) |->
        IF sessions[i].status = "active"
        THEN [sessions[i] EXCEPT !.status = "stopped", !.stopped_at = Some(t)]
        ELSE sessions[i]]

\* lines 94-99
stop_sessions(sessions, current_user, t) ==
    [i \in 1..Len(sessions) |->
        IF sessions[i].user_id = current_user.id /\ sessions[i].status = "active"
        THEN [sessions[i] EXCEPT !.status = "stopped", !.stopped_at = Some(t)]
        ELSE sessions[i]]

RECURSIVE SumSubmitted(_)
SumSubmitted(seq) == IF seq = <<>> THEN 0 ELSE Head(seq).applications_submitted + SumSubmitted(Tail(seq))

\* lines 78-113
StopAutoApplication(current_user) ==
    LET user_sessions == SelectSeq(auto_apply_sessions,
                                   LAMBDA session : session.user_id = current_user.id /\ session.status = "active")
    IN  /\ IF user_sessions = <<>>
           THEN /\ response' = HttpError(404, "No active auto-application session found")
                /\ UNCHANGED auto_apply_sessions
           ELSE /\ auto_apply_sessions' = stop_sessions(auto_apply_sessions, current_user, now)
                /\ response' = HttpOk([stopped_sessions |-> Len(user_sessions),
                                       applications_submitted |-> SumSubmitted(user_sessions)])
        /\ UNCHANGED <<matching_vars, background_tasks, successful_starts, application_vars, table_vars, now>>

RECURSIVE InsertByStartDesc(_, _)
\* list.sort(key=started_at, reverse=True) is stable
InsertByStartDesc(sorted, item) ==
    IF sorted = <<>> THEN <<item>>
    ELSE IF Head(sorted).started_at >= item.started_at
         THEN <<Head(sorted)>> \o InsertByStartDesc(Tail(sorted), item)
         ELSE <<item>> \o sorted

RECURSIVE SortByStartDesc(_)
SortByStartDesc(seq) ==
    IF seq = <<>> THEN <<>> ELSE InsertByStartDesc(SortByStartDesc(SubSeq(seq, 1, Len(seq) - 1)), seq[Len(seq)])

\* lines 156-186
GetAutoApplicationHistory(current_user) ==
    LET mine == SelectSeq(auto_apply_sessions, LAMBDA session : session.user_id = current_user.id)
        user_sessions == SortByStartDesc([i \in 1..Len(mine) |->
                             [session_id |-> mine[i].session_id,
                              started_at |-> mine[i].started_at,
                              status |-> mine[i].status,
                              applications_submitted |-> mine[i].applications_submitted,
                              preferences |-> mine[i].preferences]])
    IN  /\ response' = HttpOk([sessions |-> user_sessions,
                               total_sessions |-> Len(user_sessions),
                               total_applications |-> SumSubmitted(user_sessions)])
        /\ UNCHANGED <<matching_vars, auto_apply_vars, application_vars, table_vars, now>>

\* f"Auto-applied via AI system. Session: {session_id}"
AutoNote(session_id) == [text |-> "Auto-applied via AI system. Session: ", session_id |-> session_id]

\* lines 208-227 and 236-247: the JobApplication built from the k-th mock application
mock_application(session, k, id, t) ==
    [id |-> id,
     user_id |-> session.user_id,
     job_title |-> IF k = 1 THEN <<"Senior ", session.target_keywords[1], " Developer">>
                            ELSE <<session.target_keywords[1], " Engineer">>,
     company |-> IF k = 1 THEN "TechCorp Inc" ELSE "StartupXYZ",
     location |-> IF session.target_locations # <<>> THEN session.target_locations[1] ELSE "Remote",
     source |-> "auto_applied",
     status |-> "applied",
     applied_date |-> t,
     response_date |-> None,
     notes |-> Some(AutoNote(session.session_id))]

MockApplications == 2

\* lines 230-251: how many of the mock applications the loop creates
applications_created(session) ==
    IF session.applications_submitted >= session.daily_limit THEN 0
    ELSE Min(MockApplications, session.daily_limit - session.applications_submitted)

\* line 192
session_is_active(session) == session.status = "active"

\* lines 188-266: the background task of one start request
ProcessAutoApplications(session_id) ==
    /\ session_id \in DOMAIN background_tasks
    /\ LET i == SessionIndex(auto_apply_sessions, session_id)
       IN  /\ background_tasks' = RemoveTask(background_tasks, session_id)
           /\ IF i = 0 \/ ~session_is_active(auto_apply_sessions[i])
              THEN UNCHANGED <<auto_apply_sessions, application_vars>>
              ELSE LET session == auto_apply_sessions[i]
                   IN  IF session.target_keywords = <<>>
                       THEN /\ auto_apply_sessions' = [auto_apply_sessions EXCEPT
                                    ![i] = [session EXCEPT !.status = "error", !.error = Some("list index out of range")]]
                            /\ UNCHANGED application_vars
                       ELSE LET n == applications_created(session)
                                submitted == session.applications_submitted + n
                                done == submitted >= session.daily_limit
                            IN  /\ job_applications' = job_applications \o
                                       [j \in 1..n |-> mock_application(session, j, application_seq + j, now)]
                                /\ application_seq' = application_seq + n
                                /\ auto_apply_sessions' = [auto_apply_sessions EXCEPT
                                       ![i] = [session EXCEPT !.applications_submitted = submitted,
                                                             !.status = IF done THEN "completed" ELSE "active",
                                                             !.completed_at = IF done THEN Some(now) ELSE None]]
    /\ UNCHANGED <<matching_vars, response, successful_starts, table_vars, now>>

\* time passes between two calls of datetime.utcnow()
Tick ==
    /\ now < MaxTime
    /\ now' = now + 1
    /\ UNCHANGED <<matching_vars, response, auto_apply_vars, application_vars, table_vars>>

AutoApplyUsers == {CandidateUser(1), CandidateUser(2)}

\* request bodies of POST /start: a missing required field, no keyword, and
\* limits below and above the two mock applications
PreferenceSets ==
    {[keywords |-> Some(<<"python">>), locations |-> None, max_applications_per_day |-> None],
     [keywords |-> Some(<<>>), locations |-> Some(<<>>), max_applications_per_day |-> None],
     [keywords |-> Some(<<"python">>), locations |-> Some(<<"Austin">>), max_applications_per_day |-> Some(1)],
     [keywords |-> Some(<<"python">>), locations |-> Some(<<>>), max_applications_per_day |-> Some(3)]}

SessionIds == {make_session_id(current_user, t) : current_user \in AutoApplyUsers, t \in 0..MaxTime}

\* the first user sends every request; the second user only starts a session
\* with the largest limit
StartRequests ==
    {<<CandidateUser(1), preferences>> : preferences \in PreferenceSets}
    \cup {<<CandidateUser(2), preferences>> : preferences \in {q \in PreferenceSets : q.max_applications_per_day = Some(3)}}

InitAutoApply ==
    /\ InitOther
    /\ candidates = <<>>
    /\ job_postings = <<>>
    /\ response = NoResponse
    /\ call = NoCall

NextAutoApply ==
    \/ Tick
    \/ \E start \in StartRequests : StartAutoApplication(start[1], start[2])
    \/ StopAutoApplication(CandidateUser(1))
    \/ GetAutoApplicationHistory(CandidateUser(1))
    \/ \E session_id \in SessionIds : ProcessAutoApplications(session_id)

SpecAutoApply == InitAutoApply /\ [][NextAutoApply]_vars

(***************************************************************************)
(* Career roadmaps (routers/career_roadmap.py)                             *)
(*                                                                         *)
(* progress and milestones are plain JSON columns.  update_roadmap_progress*)
(* changes the loaded progress dict in place and assigns the same object   *)
(* back, so whether the row receives the new list rests on the ORM's       *)
(* change detection (it compares the value with itself); both outcomes     *)
(* are kept.  completion_percentage is a float, here an exact fraction.    *)
(***************************************************************************)
lead == <<"l", "e", "a", "d">>

data == <<"d", "a", "t", "a">>

ml == <<"m", "l">>

ai == <<"a", "i">>

\* lines 168-335: every branch returns three milestones with the ids
\* milestone_1..milestone_3; the branch decides their titles
generate_roadmap_content(goal) ==
    LET goal_lower == Lower(goal)
        track == IF Contains(senior, goal_lower) \/ Contains(lead, goal_lower) THEN "leadership"
                 ELSE IF Contains(data, goal_lower) \/ Contains(ml, goal_lower) \/ Contains(ai, goal_lower) THEN "data"
                 ELSE "software"
    IN  [milestones |-> [k \in 1..3 |-> [id |-> <<"milestone", k>>, track |-> track]]]

RoadmapIndex(user_id) ==
    IF \E i \in 1..Len(career_roadmaps) : career_roadmaps[i].user_id = user_id
    THEN CHOOSE i \in 1..Len(career_roadmaps) : career_roadmaps[i].user_id = user_id /\ \A j \in 1..(i - 1) : career_roadmaps[j].user_id # user_id
    ELSE 0

EmptyProgress == [completed_milestones |-> <<>>, current_milestone |-> 0]

\* lines 16-62
CreateCareerRoadmap(current_user, roadmap_data) ==
    LET i == RoadmapIndex(current_user.id)
        content == generate_roadmap_content(roadmap_data.goal)
        roadmap == [id |-> IF i = 0 THEN Len(career_roadmaps) + 1 ELSE career_roadmaps[i].id,
                    user_id |-> current_user.id,
                    goal |-> roadmap_data.goal,
                    timeline |-> roadmap_data.timeline,
                    milestones |-> content.milestones,
                    progress |-> EmptyProgress,
                    completion_percentage |-> Rat(0, 1)]
    IN  /\ career_roadmaps' = IF i = 0 THEN Append(career_roadmaps, roadmap) ELSE [career_roadmaps EXCEPT ![i] = roadmap]
        /\ response' = HttpOk([roadmap |-> roadmap])
        /\ UNCHANGED <<matching_vars, auto_apply_vars, application_vars, interviews, now>>

\* list.remove(x): the first occurrence
RemoveFirst(seq, x) ==
    LET k == CHOOSE i \in 1..Len(seq) : seq[i] = x /\ \A j \in 1..(i - 1) : seq[j] # x
    IN  SubSeq(seq, 1, k - 1) \o SubSeq(seq, k + 1, Len(seq))

\* lines 108-111
update_completed(completed_milestones, milestone_id, completed) ==
    IF completed /\ milestone_id \notin Range(completed_milestones)
    THEN Append(completed_milestones, milestone_id)
    ELSE IF ~completed /\ milestone_id \in Range(completed_milestones)
         THEN RemoveFirst(completed_milestones, milestone_id)
         ELSE completed_milestones

\* lines 114-116
completion_percentage(completed_count, total_milestones) ==
    IF total_milestones > 0 THEN Rat(completed_count * 100, total_milestones) ELSE Rat(0, 1)

\* lines 84-139; row_sees_progress is whether the flush writes the progress column
UpdateRoadmapProgress(current_user, progress_data, row_sees_progress) ==
    LET i == RoadmapIndex(current_user.id)
    IN  /\ IF i = 0
           THEN /\ response' = HttpError(404, "Career roadmap not found")
                /\ UNCHANGED career_roadmaps
           ELSE IF progress_data.milestone_id = None
           THEN /\ response' = HttpError(400, "milestone_id is required")
                /\ UNCHANGED career_roadmaps
           ELSE LET roadmap == career_roadmaps[i]
                    completed_milestones == update_completed(roadmap.progress.completed_milestones,
                                                             Val(progress_data.milestone_id),
                                                             Get(progress_data.completed, FALSE))
                    total_milestones == Len(roadmap.milestones)
                    percentage == completion_percentage(Len(completed_milestones), total_milestones)
                IN  /\ career_roadmaps' = [career_roadmaps EXCEPT ![i] =
                           [roadmap EXCEPT !.progress = IF row_sees_progress
                                                        THEN [@ EXCEPT !.completed_milestones = completed_milestones]
                                                        ELSE @,
                                           !.completion_percentage = percentage]]
                    /\ response' = HttpOk([completion_percentage |-> percentage,
                                           completed_milestones |-> Len(completed_milestones),
                                           total_milestones |-> total_milestones])
        /\ UNCHANGED <<matching_vars, auto_apply_vars, application_vars, interviews, now>>

DataScientist == <<"D", "a", "t", "a", " ", "s", "c", "i", "e", "n", "t", "i", "s", "t">>

RoadmapData == {[goal |-> goal, timeline |-> "6 months"] : goal \in {SeniorDeveloper, DataScientist, Analyst}}

\* request bodies of PUT /progress: no milestone_id, the roadmap's own ids,
\* and an id the roadmap does not have
ProgressData ==
    {[milestone_id |-> None, completed |-> Some(TRUE)]}
    \cup [milestone_id : {Some(<<"milestone", k>>) : k \in 1..4}, completed : {None, Some(TRUE), Some(FALSE)}]

InitRoadmap == InitAutoApply

NextRoadmap ==
    \/ \E current_user \in AutoApplyUsers, roadmap_data \in RoadmapData : CreateCareerRoadmap(current_user, roadmap_data)
    \/ \E progress_data \in ProgressData, row_sees_progress \in BOOLEAN :
           UpdateRoadmapProgress(CandidateUser(1), progress_data, row_sees_progress)

SpecRoadmap == InitRoadmap /\ [][NextRoadmap]_vars

(***************************************************************************)
(* recruiter.py: the job posting and interview endpoints                   *)
(***************************************************************************)
MaxInterviews == 2

\* lines 16-20: what verify_recruiter raises, None when it returns
verify_recruiter(current_user) ==
    IF current_user.user_type # "recruiter" THEN Some(HttpError(403, "Recruiter access required")) ELSE None

\* .offset(skip).limit(limit)
Page(rows, skip, limit) == SubSeq(rows, skip + 1, IF Len(rows) < skip + limit THEN Len(rows) ELSE skip + limit)

\* rows are stored in creation order; order_by(created_at.desc())
NewestFirst(rows) == [i \in 1..Len(rows) |-> rows[Len(rows) + 1 - i]]

\* lines 58-81: the HTTPException of verify_recruiter is raised inside the try
\* and caught by `except Exception`
GetJobPostings(current_user, skip, limit, active_only) ==
    LET own(job) == job.recruiter_id = current_user.id /\ (active_only => job.is_active = TRUE)
    IN  /\ response' = IF verify_recruiter(current_user) # None
                       THEN HttpError(500, "Failed to get job postings")
                       ELSE HttpOk([jobs |-> Page(NewestFirst(SelectSeq(job_postings, own)), skip, limit)])
        /\ UNCHANGED <<matching_vars, other_vars>>

JobIndex(current_user, job_id) ==
    IF \E k \in 1..Len(job_postings) : job_postings[k].id = job_id /\ job_postings[k].recruiter_id = current_user.id
    THEN CHOOSE k \in 1..Len(job_postings) : job_postings[k].id = job_id /\ job_postings[k].recruiter_id = current_user.id
    ELSE 0

\* lines 83-119: `except HTTPException: raise` lets the 403 and the 404 through
UpdateJobPosting(current_user, job_id, updates) ==
    LET k == JobIndex(current_user, job_id)
    IN  /\ IF verify_recruiter(current_user) # None
           THEN /\ response' = Val(verify_recruiter(current_user))
                /\ UNCHANGED job_postings
           ELSE IF k = 0
           THEN /\ response' = HttpError(404, "Job posting not found")
                /\ UNCHANGED job_postings
           ELSE /\ job_postings' = [job_postings EXCEPT ![k] = ApplyUpdate(job_postings[k], updates)]
                /\ response' = HttpOk([job |-> job_postings'[k]])
        /\ UNCHANGED <<candidates, call, other_vars>>

\* an ISO-8601 text: an instant and the way its UTC offset is written
IsoTime(instant, suffix) == [text |-> "iso", instant |-> instant, suffix |-> suffix]

NotATime == [text |-> "tomorrow", instant |-> 0, suffix |-> ""]

\* str.replace('Z', '+00:00')
replace_z(scheduled_time) ==
    IF scheduled_time.suffix = "Z" THEN [scheduled_time EXCEPT !.suffix = "+00:00"] ELSE scheduled_time

\* datetime.fromisoformat: the instant, or ValueError for a text it cannot read
fromisoformat(date_string) ==
    IF date_string.text = "iso" /\ date_string.suffix \in {"", "+00:00"}
    THEN [ok |-> TRUE, value |-> date_string.instant]
    ELSE [ok |-> FALSE, error |-> "ValueError"]

\* all([job_posting_id, candidate_id, scheduled_time])
all_present(interview_data) ==
    /\ interview_data.job_posting_id # None /\ Val(interview_data.job_posting_id) # 0
    /\ interview_data.candidate_id # None /\ Val(interview_data.candidate_id) # 0
    /\ interview_data.scheduled_time # None

\* lines 190-258
ScheduleInterview(current_user, interview_data) ==
    /\ Len(interviews) < MaxInterviews
    /\ IF verify_recruiter(current_user) # None
       THEN /\ response' = Val(verify_recruiter(current_user))
            /\ UNCHANGED interviews
       ELSE IF ~all_present(interview_data)
       THEN /\ response' = HttpError(400, "Missing required fields")
            /\ UNCHANGED interviews
       ELSE IF JobIndex(current_user, Val(interview_data.job_posting_id)) = 0
       THEN /\ response' = HttpError(404, "Job posting not found")
            /\ UNCHANGED interviews
       ELSE IF ~\E i \in 1..Len(candidates) : candidates[i].id = Val(interview_data.candidate_id)
       THEN /\ response' = HttpError(404, "Candidate not found")
            /\ UNCHANGED interviews
       ELSE LET parsed == fromisoformat(replace_z(Val(interview_data.scheduled_time)))
                job == job_postings[JobIndex(current_user, Val(interview_data.job_posting_id))]
                interview == [id |-> Len(interviews) + 1,
                              job_posting_id |-> Val(interview_data.job_posting_id),
                              candidate_id |-> Val(interview_data.candidate_id),
                              scheduled_time |-> parsed.value,
                              interview_type |-> Get(interview_data.interview_type, "technical"),
                              status |-> "scheduled"]
            IN  IF ~parsed.ok
                THEN /\ response' = HttpError(500, "Failed to schedule interview")
                     /\ UNCHANGED interviews
                ELSE /\ interviews' = Append(interviews, interview)
                     /\ response' = HttpOk([message |-> "Interview scheduled successfully",
                                            interview_id |-> interview.id,
                                            job_title |-> job.title,
                                            candidate_id |-> interview.candidate_id,
                                            scheduled_time |-> interview.scheduled_time,
                                            interview_type |-> interview.interview_type])
    /\ UNCHANGED <<matching_vars, auto_apply_vars, application_vars, career_roadmaps, now>>

RECURSIVE InsertByTimeDesc(_, _)
InsertByTimeDesc(sorted, interview) ==
    IF sorted = <<>> THEN <<interview>>
    ELSE IF Head(sorted).scheduled_time >= interview.scheduled_time
         THEN <<Head(sorted)>> \o InsertByTimeDesc(Tail(sorted), interview)
         ELSE <<interview>> \o sorted

RECURSIVE SortByTimeDesc(_)
SortByTimeDesc(rows) ==
    IF rows = <<>> THEN <<>> ELSE InsertByTimeDesc(SortByTimeDesc(SubSeq(rows, 1, Len(rows) - 1)), rows[Len(rows)])

\* lines 260-306: as in get_job_postings the 403 is caught by `except Exception`
GetInterviews(current_user, skip, limit, status_filter) ==
    LET joined(interview) ==
            /\ \E k \in 1..Len(job_postings) : job_postings[k].id = interview.job_posting_id
                                               /\ job_postings[k].recruiter_id = current_user.id
            /\ (Truthy(status_filter) => interview.status = Val(status_filter))
        query == SelectSeq(interviews, joined)
    IN  /\ response' = IF verify_recruiter(current_user) # None
                       THEN HttpError(500, "Failed to get interviews")
                       ELSE HttpOk([interviews |-> Page(SortByTimeDesc(query), skip, limit),
                                    total_count |-> Len(query)])
        /\ UNCHANGED <<matching_vars, other_vars>>

JobUpdates == {[title |-> Analyst], [is_active |-> FALSE], [nickname |-> "x"]}

InterviewData ==
    [job_posting_id : {None, Some(1)},
     candidate_id : {Some(1), Some(9)},
     scheduled_time : {None, Some(IsoTime(1, "Z")), Some(IsoTime(2, "")), Some(NotATime)},
     interview_type : {None}]

InitRecruiter ==
    /\ InitOther
    /\ candidates = SeedTable(1, 0, 0)
    /\ job_postings = <<>>
    /\ response = NoResponse
    /\ call = NoCall

RecruiterCallers == {RecruiterA, CandidateUser(1)}

NextRecruiter ==
    \/ \E current_user \in RecruiterCallers, job_data \in JobData : CreateJobPosting(current_user, job_data)
    \/ \E current_user \in RecruiterCallers, active_only \in BOOLEAN : GetJobPostings(current_user, 0, 100, active_only)
    \/ \E current_user \in RecruiterCallers \cup {RecruiterB}, job_id \in 1..MaxJobs, updates \in JobUpdates :
           UpdateJobPosting(current_user, job_id, updates)
    \/ \E current_user \in RecruiterCallers, job_id \in 1..MaxJobs : RankCandidates(current_user, job_id)
    \/ \E current_user \in RecruiterCallers, interview_data \in InterviewData : ScheduleInterview(current_user, interview_data)
    \/ \E current_user \in RecruiterCallers, status_filter \in {None, Some("scheduled")} :
           GetInterviews(current_user, 0, 100, status_filter)

SpecRecruiter == InitRecruiter /\ [][NextRecruiter]_vars

(***************************************************************************)
(* Job applications (routers/applications.py)                              *)
(***************************************************************************)
MaxApplications == 1

\* a time a request body supplies as response_date
SuppliedDate == 7

Note(text) == [text |-> text]

\* the row of job_applications with this id that belongs to this user, 0 if none
ApplicationIndex(application_id, current_user) ==
    IF \E i \in 1..Len(job_applications) : job_applications[i].id = application_id
                                           /\ job_applications[i].user_id = current_user.id
    THEN CHOOSE i \in 1..Len(job_applications) : job_applications[i].id = application_id
                                                 /\ job_applications[i].user_id = current_user.id
    ELSE 0

\* lines 48-81
CreateApplication(current_user, application_data) ==
    /\ application_seq < MaxApplications
    /\ LET db_application == [id |-> application_seq + 1,
                             user_id |-> current_user.id,
                             job_title |-> application_data.job_title,
                             company |-> application_data.company,
                             location |-> application_data.location,
                             source |-> IF application_data.source = "" THEN "manual" ELSE application_data.source,
                             status |-> "applied",
                             applied_date |-> now,
                             response_date |-> None,
                             notes |-> application_data.notes]
       IN  /\ job_applications' = Append(job_applications, db_application)
           /\ application_seq' = application_seq + 1
           /\ response' = HttpOk([application |-> db_application])
    /\ UNCHANGED <<matching_vars, auto_apply_vars, table_vars, now>>

RespondedStatuses == {"interview", "rejected", "offer"}

MutResponseDateAlwaysStamped(application, updates, t) ==
    IF "status" \in DOMAIN updates /\ updates.status # None /\ Val(updates.status) \in RespondedStatuses
    THEN [application EXCEPT !.response_date = Some(t)]
    ELSE application

\* lines 107-109: application already carries the fields of the request body
stamp_response_date(application, updates, t) ==
    IF /\ "status" \in DOMAIN updates /\ updates.status # None
       /\ Val(updates.status) \in RespondedStatuses
       /\ application.response_date = None
    THEN [application EXCEPT !.response_date = Some(t)]
    ELSE application

\* a status column holds the text, a request body an Optional[ApplicationStatus]
SetFields(application, update_data) ==
    [f \in DOMAIN application |->
        IF f \in DOMAIN update_data
        THEN IF f = "status" THEN Get(update_data[f], "") ELSE update_data[f]
        ELSE application[f]]

MutOwnerOfAnyApplication(application_id, current_user) ==
    IF \E i \in 1..Len(job_applications) : job_applications[i].id = application_id
    THEN CHOOSE i \in 1..Len(job_applications) : job_applications[i].id = application_id
    ELSE 0

\* lines 93-96 and 133-136: the query filters on the id and on the caller's user id
owned_application(application_id, current_user) == ApplicationIndex(application_id, current_user)

\* lines 83-123; updates is updates.dict(exclude_unset=True)
UpdateApplication(current_user, application_id, updates) ==
    LET i == owned_application(application_id, current_user)
    IN  /\ IF i = 0
           THEN /\ response' = HttpError(404, "Application not found")
                /\ UNCHANGED job_applications
           ELSE LET application == stamp_response_date(SetFields(job_applications[i], updates), updates, now)
                IN  /\ job_applications' = [job_applications EXCEPT ![i] = application]
                    /\ response' = HttpOk([application |-> application])
        /\ UNCHANGED <<matching_vars, auto_apply_vars, application_seq, table_vars, now>>

\* lines 125-152
DeleteApplication(current_user, application_id) ==
    LET i == owned_application(application_id, current_user)
    IN  /\ IF i = 0
           THEN /\ response' = HttpError(404, "Application not found")
                /\ UNCHANGED job_applications
           ELSE /\ job_applications' = SubSeq(job_applications, 1, i - 1)
                                        \o SubSeq(job_applications, i + 1, Len(job_applications))
                /\ response' = HttpOk([message |-> "Application deleted successfully"])
        /\ UNCHANGED <<matching_vars, auto_apply_vars, application_seq, table_vars, now>>

ApplicationData ==
    {[job_title |-> <<"Backend Engineer">>, company |-> "Initech", location |-> "Austin",
      source |-> "manual", notes |-> None]}

\* request bodies of PUT /{application_id}: only the fields the body sets
ApplicationUpdates ==
    {[status |-> Some(x)] : x \in {"applied", "interview", "ghosted"}}
    \cup {[notes |-> Some(Note("called back"))],
          [status |-> Some("rejected"), response_date |-> Some(SuppliedDate)],
          [status |-> Some("interview"), response_date |-> None]}

\* the second user starts one session: one application per day
OneADay == {q \in PreferenceSets : q.max_applications_per_day = Some(1)}

\* POST /start while no session has been started yet
StartFirstSession(current_user, preferences) ==
    /\ successful_starts = <<>>
    /\ StartAutoApplication(current_user, preferences)

\* the first user sends every body, the second user one
UpdateRequests ==
    {<<CandidateUser(1), updates>> : updates \in ApplicationUpdates}
    \cup {<<CandidateUser(2), [status |-> Some("interview")]>>}

InitApplications == InitAutoApply

NextApplications ==
    \/ Tick
    \/ \E application_data \in ApplicationData : CreateApplication(CandidateUser(1), application_data)
    \/ \E request \in UpdateRequests, application_id \in 1..MaxApplications :
           UpdateApplication(request[1], application_id, request[2])
    \/ \E current_user \in AutoApplyUsers, application_id \in 1..MaxApplications : DeleteApplication(current_user, application_id)
    \/ \E preferences \in OneADay : StartFirstSession(CandidateUser(2), preferences)
    \/ \E session_id \in SessionIds : ProcessAutoApplications(session_id)

SpecApplications == InitApplications /\ [][NextApplications]_vars

(***************************************************************************)
(* Properties                                                              *)
(***************************************************************************)
CandidateCallDone == call.fn = "calculate_candidate_match_score" /\ call.result # None

JobCallDone == call.fn = "calculate_job_match_score" /\ call.result # None

\* the call's candidate has an integer, non-negative experience_years
ExperienceNonNegative == call.candidate.experience_years # None /\ Val(call.candidate.experience_years) >= 0

\* C1: for a candidate with non-negative integer experience_years the
\* candidate score is an integer in 0..100, and the job score lies in [0, 100]
\* for every job and user profile
ScoreWithinBounds ==
    /\ (CandidateCallDone /\ ExperienceNonNegative) =>
           /\ Val(call.result).ok
           /\ Val(call.result).value \in 0..100
    /\ JobCallDone =>
           /\ RLeq(Rat(0, 1), Val(call.result))
           /\ RLeq(Val(call.result), Rat(100, 1))

\* a candidate who matches every requirement, has 5+ years and a full profile,
\* scored for a remote job, reaches the upper end of the interval
ScoreReachesHundred ==
    /\ CandidateCallDone
    /\ ExperienceNonNegative
    /\ Val(call.result).ok
    /\ Val(call.result).value = 100

\* the number of required skills (compared case-insensitively) the candidate has
RefOverlap(candidate, job) ==
    LET skills == OrEmpty(candidate.skills)
        reqs == OrEmpty(job.requirements)
    IN  Cardinality({Lower(reqs[j]) : j \in {j \in 1..Len(reqs) : \E i \in 1..Len(skills) : Lower(skills[i]) = Lower(reqs[j])}})

\* the number of distinct required skills (compared case-insensitively)
RefRequired(job) == Cardinality({Lower(r) : r \in Range(OrEmpty(job.requirements))})

RefItems(candidate) ==
    (IF Truthy(candidate.github_url) THEN 1 ELSE 0) + (IF Truthy(candidate.linkedin_url) THEN 1 ELSE 0)
    + (IF Truthy(candidate.resume_url) THEN 1 ELSE 0) + (IF Truthy(candidate.career_goals) THEN 1 ELSE 0)

\* the reference score as one quotient: 40k/n + min(6e, 30) + 20c/4 + 10r over
\* the common denominator 4n, truncated toward zero and clipped to 100
RefScore(candidate, job) ==
    LET k == RefOverlap(candidate, job)
        n == IF OrEmpty(candidate.skills) = <<>> \/ RefRequired(job) = 0 THEN 1 ELSE RefRequired(job)
        e == Val(candidate.experience_years)
        num == 160 * (IF OrEmpty(candidate.skills) = <<>> THEN 0 ELSE k)
               + 4 * n * (IF 6 * e < 30 THEN 6 * e ELSE 30)
               + 20 * n * RefItems(candidate)
               + 4 * n * (IF job.remote_ok = Some(TRUE) THEN 10 ELSE 0)
        t == IF num >= 0 THEN num \div (4 * n) ELSE -((-num) \div (4 * n))
    IN  IF t > 100 THEN 100 ELSE t

\* C2: the candidate score equals the truncated, clipped sum of the skill
\* contribution, min(experience_years*6, 30), (non-empty profile items)/4*20
\* and 10 for a remote job
ScoreEqualsReference ==
    (CandidateCallDone /\ call.candidate.experience_years # None) =>
        /\ Val(call.result).ok
        /\ Val(call.result).value = RefScore(call.candidate, call.job)

\* a sum with a fractional part: 2 of 3 skills, 5+ years, three profile items
\* and no remote work give 26.67 + 30 + 15, truncated to 71
ScoreTruncatesFraction ==
    /\ CandidateCallDone
    /\ Val(call.result).ok
    /\ Val(call.result).value = 71
    /\ RefOverlap(call.candidate, call.job) = 2
    /\ RefRequired(call.job) = 3

\* C ⊇ R, compared case-insensitively
HasEveryRequiredSkill(candidate, job) ==
    LET skills == OrEmpty(candidate.skills)
        reqs == OrEmpty(job.requirements)
    IN  \A j \in 1..Len(reqs) : \E i \in 1..Len(skills) : Lower(skills[i]) = Lower(reqs[j])

\* C3: the skill contribution is 0 when either skill set is empty,
\* min(|C ∩ R|/|R|*40, 40) otherwise, and 40 when R is non-empty and C ⊇ R
SkillContribution ==
    CandidateCallDone =>
        LET sk == skill_score(call.candidate, call.job)
            skills == OrEmpty(call.candidate.skills)
            reqs == OrEmpty(call.job.requirements)
            k == RefOverlap(call.candidate, call.job)
            n == RefRequired(call.job)
        IN  /\ (skills = <<>> \/ reqs = <<>>) => REq(sk, Rat(0, 1))
            /\ (skills # <<>> /\ reqs # <<>>) =>
                   /\ sk.d # 0
                   /\ IF k <= n THEN sk.n * n = 40 * k * sk.d ELSE REq(sk, Rat(40, 1))
            /\ (reqs # <<>> /\ HasEveryRequiredSkill(call.candidate, call.job)) => REq(sk, Rat(40, 1))

\* a requirement list with a repeated skill in two letter cases, half covered
SkillContributionOverRepeatedRequirement ==
    /\ CandidateCallDone
    /\ Len(OrEmpty(call.job.requirements)) > RefRequired(call.job)
    /\ RefOverlap(call.candidate, call.job) = 1
    /\ REq(skill_score(call.candidate, call.job), Rat(20, 1))

WithExperience(candidate, years) == [candidate EXCEPT !.experience_years = Some(years)]

\* C4: with all other fields fixed the score never decreases as
\* experience_years grows from 0 to 5, and from 5 years on it equals the score at 5
ExperienceMonotoneAndSaturating ==
    (CandidateCallDone /\ ExperienceNonNegative) =>
        LET e == Val(call.candidate.experience_years)
            at(y) == calculate_candidate_match_score(WithExperience(call.candidate, y), call.job).value
            s == Val(call.result).value
        IN  /\ \A y \in 0..e : at(y) <= s
            /\ e >= 5 => s = at(5)
            /\ e < 5 => s <= at(5)

\* a call beyond the saturation point whose score is below the clip at 100
ScoreSaturatedBeyondFiveYears ==
    /\ CandidateCallDone
    /\ ExperienceNonNegative
    /\ Val(call.candidate.experience_years) > 5
    /\ Val(call.result).value < 100
    /\ Val(call.result).value > calculate_candidate_match_score(WithExperience(call.candidate, 4), call.job).value

Reverse(list) == [i \in 1..Len(list) |-> list[Len(list) + 1 - i]]

\* the same skills in other letter cases, in another order, or with one repeated
SkillListVariants(list) ==
    {[i \in 1..Len(list) |-> Upper(list[i])], [i \in 1..Len(list) |-> Lower(list[i])], Reverse(list)}
    \cup (IF list = <<>> THEN {} ELSE {Append(list, list[1])})

CandidateScoreIgnoresSkillListForm ==
    CandidateCallDone =>
        /\ call.candidate.skills # None =>
               \A v \in SkillListVariants(Val(call.candidate.skills)) :
                   calculate_candidate_match_score([call.candidate EXCEPT !.skills = Some(v)], call.job) = Val(call.result)
        /\ call.job.requirements # None =>
               \A v \in SkillListVariants(Val(call.job.requirements)) :
                   calculate_candidate_match_score(call.candidate, [call.job EXCEPT !.requirements = Some(v)]) = Val(call.result)

JobScoreIgnoresSkillListForm ==
    JobCallDone =>
        /\ call.user_profile.skills # None =>
               \A v \in SkillListVariants(Val(call.user_profile.skills)) :
                   REq(calculate_job_match_score(call.job, [call.user_profile EXCEPT !.skills = Some(v)]), Val(call.result))
        /\ call.job.requirements # None =>
               \A v \in SkillListVariants(Val(call.job.requirements)) :
                   REq(calculate_job_match_score([call.job EXCEPT !.requirements = Some(v)], call.user_profile), Val(call.result))

\* C5: in both scorers, changing the letter case of skills, reordering them or
\* repeating one, in the candidate's/user's list or in the job's requirement
\* list, never changes the score
ScoresIgnoreSkillListForm == CandidateScoreIgnoresSkillListForm /\ JobScoreIgnoresSkillListForm

Between(x, lo, hi) == RLeq(Rat(lo, 1), x) /\ RLeq(x, Rat(hi, 1))

\* C6: in both scorers every component's contribution lies between 0 and its
\* weight cap (candidate: skills 40, experience 30, completeness 20, remote 10;
\* job: skills 40, location 20, experience level 20, company 10, salary 10)
ComponentsWithinCaps ==
    /\ (CandidateCallDone /\ call.candidate.experience_years # None) =>
           /\ Between(skill_score(call.candidate, call.job), 0, 40)
           /\ exp_score(call.candidate) \in 0..30
           /\ Between(completeness_score(call.candidate), 0, 20)
           /\ remote_score(call.job) \in 0..10
    /\ JobCallDone =>
           /\ Between(job_skills_score(call.job, call.user_profile), 0, 40)
           /\ location_score(call.job, call.user_profile) \in 0..20
           /\ experience_level_score(call.job, call.user_profile) \in 0..20
           /\ company_score(call.job, call.user_profile) \in 0..10
           /\ salary_score(call.job, call.user_profile) \in 0..10

\* C7: for every stored candidate and job posting, whichever optional fields
\* are None, the scorer and the reason and red-flag generators return normally
ScorersNeverRaise ==
    \A i \in 1..Len(candidates), k \in 1..Len(job_postings) :
        /\ calculate_candidate_match_score(candidates[i], job_postings[k]).ok
        /\ generate_match_reasons(candidates[i], job_postings[k], 0).ok
        /\ generate_red_flags(candidates[i], job_postings[k]).ok

IsRanking(r) == "ranked_candidates" \in DOMAIN r

\* C8: the interview_recommendation of every ranked entry is "recommend" iff
\* match_score > 70, "maybe" iff 50 < match_score <= 70, "skip" iff match_score <= 50
RecommendationFollowsScore ==
    IsRanking(response) =>
        \A i \in 1..Len(response.ranked_candidates) :
            LET item == response.ranked_candidates[i]
            IN  /\ item.interview_recommendation \in {"recommend", "maybe", "skip"}
                /\ item.interview_recommendation = "recommend" <=> item.match_score > 70
                /\ item.interview_recommendation = "maybe" <=> (50 < item.match_score /\ item.match_score <= 70)
                /\ item.interview_recommendation = "skip" <=> item.match_score <= 50

\* one ranking that holds the three boundary cases: 70 is "maybe", 71 is
\* "recommend", and a score of at most 50 is "skip"
RecommendationAtBoundaries ==
    /\ IsRanking(response)
    /\ \E i \in 1..Len(response.ranked_candidates) :
           response.ranked_candidates[i].match_score = 70 /\ response.ranked_candidates[i].interview_recommendation = "maybe"
    /\ \E i \in 1..Len(response.ranked_candidates) :
           response.ranked_candidates[i].match_score = 71 /\ response.ranked_candidates[i].interview_recommendation = "recommend"
    /\ \E i \in 1..Len(response.ranked_candidates) :
           response.ranked_candidates[i].match_score <= 50 /\ response.ranked_candidates[i].interview_recommendation = "skip"

\* the position of a candidate id in the order the rows were fetched
FetchPosition(r, id) == CHOOSE p \in 1..Len(r.fetched) : r.fetched[p] = id

\* C9: ranked_candidates is in descending match_score order, and entries with
\* equal scores keep the order in which their rows were fetched
RankingSortedAndStable ==
    IsRanking(response) =>
        \A i, j \in 1..Len(response.ranked_candidates) :
            i < j =>
                LET a == response.ranked_candidates[i]
                    b == response.ranked_candidates[j]
                IN  /\ a.match_score >= b.match_score
                    /\ a.match_score = b.match_score =>
                           FetchPosition(response, a.candidate_id) < FetchPosition(response, b.candidate_id)

\* a ranking with a tie between two entries and a higher-scoring row fetched
\* after a lower-scoring one
RankingWithTiesAndReordering ==
    /\ IsRanking(response)
    /\ \E i, j \in 1..Len(response.ranked_candidates) :
           /\ i < j
           /\ response.ranked_candidates[i].match_score = response.ranked_candidates[j].match_score
    /\ \E i, j \in 1..Len(response.ranked_candidates) :
           /\ i < j
           /\ response.ranked_candidates[i].match_score > response.ranked_candidates[j].match_score
           /\ response.ranked_candidates[i].candidate_id > response.ranked_candidates[j].candidate_id

\* the job posting a ranking response is about
JobOfRanking(r) == job_postings[CHOOSE k \in 1..Len(job_postings) : job_postings[k].id = r.job_id]

\* C10: at most 20 candidates are scored and at most 10 entries returned, no
\* scored candidate left out has a strictly higher score than a returned one,
\* and every entry has match_score in 0..100, match_reasons, red_flags and an
\* interview_recommendation among recommend, maybe, skip
RankingTopTenWellFormed ==
    IsRanking(response) =>
        LET returned == response.ranked_candidates
            returned_ids == {returned[i].candidate_id : i \in 1..Len(returned)}
        IN  /\ response.total_candidates <= 20
            /\ Len(response.fetched) <= 20
            /\ Len(returned) <= 10
            /\ \A p \in 1..Len(response.fetched) :
                   response.fetched[p] \notin returned_ids =>
                       \A i \in 1..Len(returned) :
                           calculate_candidate_match_score(candidates[response.fetched[p]], JobOfRanking(response)).value
                               <= returned[i].match_score
            /\ \A i \in 1..Len(returned) :
                   /\ returned[i].match_score \in 0..100
                   /\ {"match_reasons", "red_flags"} \subseteq DOMAIN returned[i]
                   /\ returned[i].interview_recommendation \in {"recommend", "maybe", "skip"}

\* the part of C10 that does not depend on the sign of experience_years
RankingTopTenSelected ==
    IsRanking(response) =>
        LET returned == response.ranked_candidates
            returned_ids == {returned[i].candidate_id : i \in 1..Len(returned)}
        IN  /\ Len(response.fetched) <= 20
            /\ Len(returned) <= 10
            /\ \A p \in 1..Len(response.fetched) :
                   response.fetched[p] \notin returned_ids =>
                       \A i \in 1..Len(returned) :
                           calculate_candidate_match_score(candidates[response.fetched[p]], JobOfRanking(response)).value
                               <= returned[i].match_score

MatchReasonsCallDone == call.fn = "generate_match_reasons" /\ call.result # None

RedFlagsCallDone == call.fn = "generate_red_flags" /\ call.result # None

Excellent == Reason("Excellent skills alignment with job requirements")

Good == Reason("Good skills match with most requirements")

OneIf(cond, item) == IF cond THEN <<item>> ELSE <<>>

\* the five notes in their fixed order, each present under its own condition
ExpectedReasons(candidate, job, score) ==
    OneIf(score > 80, Excellent)
    \o OneIf(60 < score /\ score <= 80, Good)
    \o OneIf(Val(candidate.experience_years) >= 3, [years |-> candidate.experience_years, text |-> " years of relevant experience"])
    \o OneIf(candidate.github_url # None /\ Val(candidate.github_url) # "", Reason("Active GitHub profile with code samples"))
    \o OneIf(candidate.linkedin_url # None /\ Val(candidate.linkedin_url) # "", Reason("Complete LinkedIn professional profile"))
    \o OneIf(job.remote_ok = Some(TRUE), Reason("Open to remote work opportunities"))

\* C11: whenever generate_match_reasons returns, its list is [skills-level
\* note, experience note, GitHub note, LinkedIn note, remote note] in that
\* order: "Excellent" iff score > 80, "Good" iff 60 < score <= 80, neither for
\* score <= 60 and never both; the experience note iff experience_years >= 3,
\* carrying the year count; the other notes iff github_url, linkedin_url and
\* remote_ok are set
MatchReasonsInFixedOrder ==
    (MatchReasonsCallDone /\ call.candidate.experience_years # None) =>
        LET reasons == Val(call.result).value
        IN  /\ Val(call.result).ok
            /\ reasons = ExpectedReasons(call.candidate, call.job, call.score)
            /\ ~(Excellent \in Range(reasons) /\ Good \in Range(reasons))
            /\ call.score <= 60 => (Excellent \notin Range(reasons) /\ Good \notin Range(reasons))

\* a call at the threshold 80 that yields every note, "Good" being the first
AllReasonsAtEighty ==
    /\ MatchReasonsCallDone
    /\ call.score = 80
    /\ Val(call.result).ok
    /\ Len(Val(call.result).value) = 5
    /\ Val(call.result).value[1] = Good
    /\ Val(call.result).value[2].years = Some(MaxYears)

NoResume == "No resume uploaded"

\* C12: "No resume uploaded" is among the red flags iff resume_url is None or
\* empty, whatever the other candidate and job fields are
NoResumeFlagIffResumeMissing ==
    RedFlagsCallDone =>
        /\ Val(call.result).ok
        /\ (NoResume \in Range(Val(call.result).value)) <=> call.candidate.resume_url \in {None, Some("")}

\* an empty (not None) resume_url flagged on a profile that raises no other flag
EmptyResumeIsTheOnlyFlag ==
    /\ RedFlagsCallDone
    /\ call.candidate.resume_url = Some("")
    /\ Val(call.result).value = <<NoResume>>

\* the four flags in their fixed order, each present under its own condition
ExpectedRedFlags(candidate, job) ==
    OneIf(candidate.resume_url \in {None, Some("")}, NoResume)
    \o OneIf(candidate.skills \in {None, Some(<<>>)}, "No skills listed in profile")
    \o OneIf(candidate.experience_years # None /\ Val(candidate.experience_years) = 0, "No professional experience listed")
    \o OneIf(candidate.github_url \in {None, Some("")}
             /\ \E i \in 1..Len(job.title) : Lower(SubSeq(job.title, i, Min(Len(job.title), i + Len(developer) - 1))) = developer,
             "No GitHub profile for technical role")

\* C13: the red flags are [no resume, no skills, no experience, no GitHub for
\* technical role] in that order: no skills iff the skill list is empty or
\* None, no experience iff experience_years = 0, no GitHub iff github_url is
\* empty and the title contains "developer" in any letter case
RedFlagsInFixedOrder ==
    RedFlagsCallDone =>
        /\ Val(call.result).ok
        /\ Val(call.result).value = ExpectedRedFlags(call.candidate, call.job)

\* all four flags raised for a title that spells DEVELOPER in capitals
AllRedFlagsForCapitalisedTitle ==
    /\ RedFlagsCallDone
    /\ call.job.title = SeniorDeveloper
    /\ ~Contains(developer, call.job.title)
    /\ Len(Val(call.result).value) = 4

\* the stored row of a ranked entry; every handler replaces the response, so
\* the tables are those the ranking was computed from
RowOfEntry(item) == candidates[CHOOSE k \in 1..Len(candidates) : candidates[k].id = item.candidate_id]

\* skills {Python, React}, 4 years, the three URLs and the goal text set
ScenarioCandidate(row) ==
    /\ row.skills # None
    /\ Range(Val(row.skills)) = {Python, React}
    /\ row.experience_years = Some(4)
    /\ \A f \in {"github_url", "linkedin_url", "resume_url", "career_goals"} : row[f] # None /\ Val(row[f]) # ""

\* a remote job requiring {Python, React, AWS}
ScenarioJob(job) ==
    /\ job.requirements # None
    /\ Range(Val(job.requirements)) = {Python, React, AWS}
    /\ job.remote_ok = Some(TRUE)

ScenarioEntries ==
    IF IsRanking(response) /\ ScenarioJob(JobOfRanking(response))
    THEN {i \in 1..Len(response.ranked_candidates) : ScenarioCandidate(RowOfEntry(response.ranked_candidates[i]))}
    ELSE {}

\* C14: a candidate with skills {Python, React}, 4 years, all URLs and goals
\* set, ranked for a remote job requiring {Python, React, AWS}, gets
\* match_score 80 and "recommend"; the reasons hold "Good skills match with
\* most requirements", not the "Excellent" note, and "4 years of relevant
\* experience"
ScenarioScoresEighty ==
    \A i \in ScenarioEntries :
        LET item == response.ranked_candidates[i]
        IN  /\ item.match_score = 80
            /\ item.interview_recommendation = "recommend"
            /\ Good \in Range(item.match_reasons)
            /\ Excellent \notin Range(item.match_reasons)
            /\ ExperienceReason(4) \in Range(item.match_reasons)

\* a ranking response that holds the scenario's candidate
ScenarioCandidateRanked == ScenarioEntries # {}

RankDetails == {"Recruiter access required", "Job posting not found", "Failed to rank candidates"}

\* the responses that only rank_candidates gives
IsRankResponse(r) == IsRanking(r) \/ ("detail" \in DOMAIN r /\ r.detail \in RankDetails)

\* C16: a rank_candidates request, with the scoring and the reason and
\* red-flag generation it runs, leaves every candidate row and every job
\* posting as it was
RankingLeavesStoreUnchanged ==
    [][IsRankResponse(response') => (candidates' = candidates /\ job_postings' = job_postings)]_vars

\* a ranking was returned whose entry shows skills [] while the stored row
\* still has skills None
RankedRowKeepsNoneSkills ==
    /\ IsRanking(response)
    /\ \E i \in 1..Len(response.ranked_candidates) :
           /\ response.ranked_candidates[i].skills = <<>>
           /\ RowOfEntry(response.ranked_candidates[i]).skills = None

Locations(user_profile) == IF user_profile.preferred_locations = None THEN <<>> ELSE Val(user_profile.preferred_locations)

JobLocation(job) == IF job.location = None THEN <<>> ELSE Val(job.location)

\* some preferred location is a case-insensitive substring of the job
\* location, or the job location contains "remote"
LocationMatches(job, user_profile) ==
    \/ \E i \in 1..Len(Locations(user_profile)) : Contains(Lower(Locations(user_profile)[i]), Lower(JobLocation(job)))
    \/ Contains(remote, Lower(JobLocation(job)))

\* C17 as stated: the location component is 20 iff some preferred location is
\* a case-insensitive substring of the job location or the job location
\* contains "remote", and 0 otherwise
LocationScoreIffMatch ==
    JobCallDone =>
        /\ location_score(call.job, call.user_profile) \in {0, 20}
        /\ location_score(call.job, call.user_profile) = 20 <=> LocationMatches(call.job, call.user_profile)

\* C17 amended: the location component is 20 iff the user has no preferred
\* locations, or some preferred location is a case-insensitive substring of
\* the job location, or the job location contains "remote"; 0 otherwise
LocationScoreIffNoPreferenceOrMatch ==
    JobCallDone =>
        /\ location_score(call.job, call.user_profile) \in {0, 20}
        /\ location_score(call.job, call.user_profile) = 20 <=>
               (Locations(call.user_profile) = <<>> \/ LocationMatches(call.job, call.user_profile))

\* a user without preferred locations gets the 20 points for a job in New York
LocationScoreWithoutPreference ==
    /\ JobCallDone
    /\ call.user_profile.preferred_locations = Some(<<>>)
    /\ call.job.location = Some(NewYork)
    /\ location_score(call.job, call.user_profile) = 20
    /\ ~LocationMatches(call.job, call.user_profile)

ExperienceLevel(job) == IF job.experience_level = None THEN <<>> ELSE Lower(Val(job.experience_level))

UserYears(user_profile) == IF user_profile.experience_years = None THEN 0 ELSE Val(user_profile.experience_years)

\* the buckets whose keyword is in the text and whose range holds the years
MatchedBuckets(job, user_profile) ==
    {b \in {"entry", "mid", "senior"} :
        \/ b = "entry" /\ Contains(entry, ExperienceLevel(job)) /\ UserYears(user_profile) <= 2
        \/ b = "mid" /\ Contains(mid, ExperienceLevel(job)) /\ 2 <= UserYears(user_profile) /\ UserYears(user_profile) <= 5
        \/ b = "senior" /\ Contains(senior, ExperienceLevel(job)) /\ UserYears(user_profile) >= 5}

\* C18: the experience-level component is exactly 20 when the experience_level
\* text contains a keyword whose bucket holds the user's years (entry <= 2,
\* 2 <= mid <= 5, senior >= 5) and 0 otherwise, and is 20 also when several
\* buckets match
ExperienceLevelScoreIsBinary ==
    JobCallDone =>
        experience_level_score(call.job, call.user_profile) =
            IF MatchedBuckets(call.job, call.user_profile) # {} THEN 20 ELSE 0

\* 5 years against "Mid-Senior": the mid and the senior bucket both match
ExperienceLevelTwoBucketsMatch ==
    /\ JobCallDone
    /\ MatchedBuckets(call.job, call.user_profile) = {"mid", "senior"}
    /\ experience_level_score(call.job, call.user_profile) = 20

SalaryText(job) == IF job.salary_range = None THEN <<>> ELSE Val(job.salary_range)

MinSalary(user_profile) == IF user_profile.min_salary = None THEN 0 ELSE Val(user_profile.min_salary)

\* C19: the salary component is 10 when a number is extracted from the salary
\* text and is >= min_salary, or when none is extracted and min_salary is 0;
\* it is 0 when none is extracted and min_salary > 0, and 0 when the extracted
\* number is below min_salary
SalaryScoreFollowsFloor ==
    JobCallDone =>
        LET extracted == first_salary_number(SalaryText(call.job))
            floor == MinSalary(call.user_profile)
            sc == salary_score(call.job, call.user_profile)
        IN  /\ (extracted # None /\ Val(extracted) >= floor) => sc = 10
            /\ (extracted = None /\ floor = 0) => sc = 10
            /\ (extracted = None /\ floor > 0) => sc = 0
            /\ (extracted # None /\ Val(extracted) < floor) => sc = 0

\* "$80,000 - $120,000" against a floor of exactly 80000
SalaryAtTheFloor ==
    /\ JobCallDone
    /\ first_salary_number(SalaryText(call.job)) = Some(80000)
    /\ MinSalary(call.user_profile) = 80000
    /\ salary_score(call.job, call.user_profile) = 10

UserSkills(user_profile) == IF user_profile.skills = None THEN <<>> ELSE Val(user_profile.skills)

Requirements(job) == IF job.requirements = None THEN <<>> ELSE Val(job.requirements)

Description(job) == IF job.description = None THEN <<>> ELSE Val(job.description)

\* the entries of the user's skill list that are a substring of the
\* concatenated requirements and description text
InConcatenatedText(job, user_profile) ==
    {i \in 1..Len(UserSkills(user_profile)) : Contains(Lower(UserSkills(user_profile)[i]), job_text(job))}

\* the entries that are a substring of one requirement or of the description
InOneRequirementOrDescription(job, user_profile) ==
    {i \in 1..Len(UserSkills(user_profile)) :
        \/ \E r \in 1..Len(Requirements(job)) : Contains(Lower(UserSkills(user_profile)[i]), Lower(Requirements(job)[r]))
        \/ Contains(Lower(UserSkills(user_profile)[i]), Lower(Description(job)))}

\* sc = 40 * k / n, and 0 when n = 0
IsSkillShare(sc, k, n) == IF n = 0 THEN REq(sc, Rat(0, 1)) ELSE sc.d # 0 /\ sc.n * n = 40 * k * sc.d

\* C20 as stated: the skills component is 40 * matched / (number of user
\* skills), 0 when the user has no skills, a skill being matched exactly when
\* it is a substring of the concatenated requirements+description text
SkillsScoreOverConcatenatedText ==
    JobCallDone =>
        IsSkillShare(job_skills_score(call.job, call.user_profile),
                     Cardinality(InConcatenatedText(call.job, call.user_profile)),
                     Len(UserSkills(call.user_profile)))

\* C20 amended: the skills component is 40 * matched / (number of entries of
\* the user's skill list), 0 when the list is empty, an entry being matched
\* exactly when, lower-cased, it is a substring of some single lower-cased
\* requirement or of the lower-cased description
SkillsScoreOverSingleRequirements ==
    JobCallDone =>
        IsSkillShare(job_skills_score(call.job, call.user_profile),
                     Cardinality(InOneRequirementOrDescription(call.job, call.user_profile)),
                     Len(UserSkills(call.user_profile)))

\* "JavaScript React" is in the concatenated text but in no single
\* requirement, and "Java" is matched inside "JavaScript": 1 of 2, 20 points
SkillSpanningTwoRequirements ==
    /\ JobCallDone
    /\ call.user_profile.skills = Some(<<JavaScriptReact, Java>>)
    /\ InConcatenatedText(call.job, call.user_profile) = {1, 2}
    /\ InOneRequirementOrDescription(call.job, call.user_profile) = {2}
    /\ REq(job_skills_score(call.job, call.user_profile), Rat(20, 1))

SessionKeys(sessions) == {sessions[i].session_id : i \in 1..Len(sessions)}

SessionOf(sessions, session_id) == sessions[SessionIndex(sessions, session_id)]

StartsOf(user_id) == Cardinality({i \in 1..Len(successful_starts) : successful_starts[i] = user_id})

SessionsOf(user_id) == Cardinality({i \in 1..Len(auto_apply_sessions) : auto_apply_sessions[i].user_id = user_id})

IsHistory(r) == "total_sessions" \in DOMAIN r

\* C23: every successful start adds one entry to auto_apply_sessions, so a
\* user with n successful starts has n sessions, also when several starts
\* fall within the same second, and the history endpoint lists n sessions
EveryStartAddsASession ==
    /\ \A current_user \in AutoApplyUsers : SessionsOf(current_user.id) = StartsOf(current_user.id)
    /\ IsHistory(response) =>
           /\ response.total_sessions = StartsOf(CandidateUser(1).id)
           /\ Len(response.sessions) = StartsOf(CandidateUser(1).id)

\* the JobApplication rows whose notes name the session
RowsNaming(rows, session_id) == {i \in 1..Len(rows) : rows[i].notes = Some(AutoNote(session_id))}

\* C21: a session is created active with applications_submitted = 0; its
\* status only moves from active to stopped, completed or error and never
\* back to active; applications_submitted only grows, only while the session
\* is active and only in a step of its background task, so a session stopped
\* before its task runs keeps applications_submitted = 0
SessionLifecycle ==
    [][\A session_id \in SessionKeys(auto_apply_sessions') :
           LET after == SessionOf(auto_apply_sessions', session_id)
           IN  IF session_id \notin SessionKeys(auto_apply_sessions)
               THEN after.status = "active" /\ after.applications_submitted = 0
               ELSE LET before == SessionOf(auto_apply_sessions, session_id)
                    IN  /\ after.status # before.status =>
                               (before.status = "active" /\ after.status \in {"stopped", "completed", "error"})
                        /\ after.applications_submitted # before.applications_submitted =>
                               /\ before.status = "active"
                               /\ after.applications_submitted > before.applications_submitted
                               /\ session_id \in DOMAIN background_tasks
                               /\ background_tasks' = RemoveTask(background_tasks, session_id)]_vars

\* C22: for every session with daily_limit >= 0, applications_submitted is
\* at most daily_limit, and so is the number of JobApplication rows whose
\* notes name the session
SubmittedWithinDailyLimit ==
    \A i \in 1..Len(auto_apply_sessions) :
        LET session == auto_apply_sessions[i]
        IN  session.daily_limit >= 0 =>
                /\ session.applications_submitted <= session.daily_limit
                /\ Cardinality(RowsNaming(job_applications, session.session_id)) <= session.daily_limit

\* what the caller's active sessions look like after a stop at time t
Stopped(session, t) == [session EXCEPT !.status = "stopped", !.stopped_at = Some(t)]

\* C24: stop_auto_application sets exactly the caller's active sessions to
\* stopped and leaves every other session, other users' and the caller's
\* non-active ones, as it was; a caller without an active session is
\* answered 404 and no session changes
StopChangesOnlyCallersActiveSessions ==
    [][\A current_user \in AutoApplyUsers :
           StopAutoApplication(current_user) =>
               /\ Len(auto_apply_sessions') = Len(auto_apply_sessions)
               /\ \A i \in 1..Len(auto_apply_sessions) :
                      LET session == auto_apply_sessions[i]
                      IN  IF session.user_id = current_user.id /\ session.status = "active"
                          THEN /\ auto_apply_sessions'[i] = Stopped(session, now)
                               /\ response'.status = 200
                          ELSE auto_apply_sessions'[i] = session
               /\ (\A i \in 1..Len(auto_apply_sessions) :
                       ~(auto_apply_sessions[i].user_id = current_user.id /\ auto_apply_sessions[i].status = "active"))
                  => (response'.status = 404 /\ auto_apply_sessions' = auto_apply_sessions)
               /\ background_tasks' = background_tasks
               /\ job_applications' = job_applications]_vars

IsStopped(r) == "stopped_sessions" \in DOMAIN r

\* a stop was answered 200 and another session, of another user or a
\* finished one of the caller, is still as it was
StoppedBesideAnotherSession ==
    /\ IsStopped(response)
    /\ \E i, j \in 1..Len(auto_apply_sessions) :
           /\ auto_apply_sessions[i].status = "stopped"
           /\ auto_apply_sessions[i].stopped_at = Some(now)
           /\ auto_apply_sessions[j].status \in {"active", "completed", "error"}
           /\ auto_apply_sessions[j].stopped_at = None

\* C25: when the background task raises, the session goes to status error
\* with the error text recorded, its applications_submitted equals the number
\* of rows committed for it, and no other session changes
FailedSessionCountsCommittedRows ==
    [][\A i \in 1..Len(auto_apply_sessions) :
           (/\ Len(auto_apply_sessions') = Len(auto_apply_sessions)
            /\ auto_apply_sessions[i].status # "error"
            /\ auto_apply_sessions'[i].status = "error") =>
               LET session == auto_apply_sessions'[i]
               IN  /\ session.error # None
                   /\ session.applications_submitted = Cardinality(RowsNaming(job_applications', session.session_id))
                   /\ \A j \in 1..Len(auto_apply_sessions) : j # i => auto_apply_sessions'[j] = auto_apply_sessions[j]]_vars

OwnMilestones(roadmap) == {roadmap.milestones[k].id : k \in 1..Len(roadmap.milestones)}

\* C26: after any sequence of create_career_roadmap and
\* update_roadmap_progress calls every roadmap's completion_percentage is
\* within [0, 100] and equals completed milestones / roadmap milestones * 100,
\* and completed_milestones has no duplicates and only ids of the roadmap's
\* own milestones
RoadmapProgressConsistent ==
    \A i \in 1..Len(career_roadmaps) :
        LET roadmap == career_roadmaps[i]
            completed_milestones == roadmap.progress.completed_milestones
        IN  /\ Between(roadmap.completion_percentage, 0, 100)
            /\ roadmap.completion_percentage.n * Len(roadmap.milestones)
                   = 100 * Len(completed_milestones) * roadmap.completion_percentage.d
            /\ Cardinality(Range(completed_milestones)) = Len(completed_milestones)
            /\ Range(completed_milestones) \subseteq OwnMilestones(roadmap)

\* C27: a user who is not a recruiter is answered 403 "Recruiter access
\* required" by every recruiter endpoint (create, list and update job
\* postings, rank candidates, schedule and list interviews), and the refused
\* request creates or changes no job posting and no interview
NonRecruiterRefusedWith403 ==
    [][\A current_user \in {CandidateUser(1)} :
           (\/ \E job_data \in JobData : CreateJobPosting(current_user, job_data)
            \/ \E active_only \in BOOLEAN : GetJobPostings(current_user, 0, 100, active_only)
            \/ \E job_id \in 1..MaxJobs, updates \in JobUpdates : UpdateJobPosting(current_user, job_id, updates)
            \/ \E job_id \in 1..MaxJobs : RankCandidates(current_user, job_id)
            \/ \E interview_data \in InterviewData : ScheduleInterview(current_user, interview_data)
            \/ \E status_filter \in {None, Some("scheduled")} : GetInterviews(current_user, 0, 100, status_filter))
           => /\ response' = HttpError(403, "Recruiter access required")
              /\ UNCHANGED <<job_postings, interviews>>]_vars

RowsById(rows, id) == {rows[i] : i \in {k \in 1..Len(rows) : rows[k].id = id}}

\* a request of this user on the applications endpoints, or the background
\* task of one of this user's auto-apply sessions
ApplicationStepOf(current_user) ==
    \/ \E application_data \in ApplicationData : CreateApplication(current_user, application_data)
    \/ \E application_id \in 1..MaxApplications, updates \in ApplicationUpdates :
           UpdateApplication(current_user, application_id, updates)
    \/ \E application_id \in 1..MaxApplications : DeleteApplication(current_user, application_id)
    \/ \E session_id \in SessionIds : session_id.user_id = current_user.id /\ ProcessAutoApplications(session_id)

BelongsToAnother(application_id, current_user) ==
    \E row \in RowsById(job_applications, application_id) : row.user_id # current_user.id

\* C28: update_application and delete_application called with the id of
\* another user's application answer 404 and leave it unchanged, and a
\* user's applications are created, modified and deleted only by requests
\* or auto-apply sessions of that same user
ApplicationsTouchedOnlyByOwner ==
    [][/\ \A current_user \in AutoApplyUsers, application_id \in 1..MaxApplications :
              (/\ BelongsToAnother(application_id, current_user)
               /\ \/ \E updates \in ApplicationUpdates : UpdateApplication(current_user, application_id, updates)
                  \/ DeleteApplication(current_user, application_id))
              => /\ response' = HttpError(404, "Application not found")
                 /\ UNCHANGED job_applications
       /\ \A id \in 1..application_seq' :
              RowsById(job_applications, id) # RowsById(job_applications', id)
              => \E current_user \in AutoApplyUsers :
                     /\ \A row \in RowsById(job_applications, id) \cup RowsById(job_applications', id) :
                            row.user_id = current_user.id
                     /\ ApplicationStepOf(current_user)]_vars

\* the second user's application 1, already updated by its owner, and a 404
\* as the last answer
ForeignApplicationRefused ==
    /\ response = HttpError(404, "Application not found")
    /\ \E row \in RowsById(job_applications, 1) : row.user_id = CandidateUser(2).id /\ row.status = "interview"

\* C29: response_date is set the first time an update changes the status to
\* interview, rejected or offer while it is unset; once set, an update that
\* supplies no response_date never overwrites it; an update to applied or
\* ghosted never sets it
ResponseDateSetOnce ==
    [][\A current_user \in AutoApplyUsers, application_id \in 1..MaxApplications, updates \in ApplicationUpdates :
           LET i == ApplicationIndex(application_id, current_user)
           IN  (i # 0 /\ "response_date" \notin DOMAIN updates /\ UpdateApplication(current_user, application_id, updates))
               => LET before == job_applications[i].response_date
                      after == job_applications'[i].response_date
                      status == IF "status" \in DOMAIN updates THEN Get(updates.status, "") ELSE ""
                  IN  /\ (status \in RespondedStatuses /\ before = None) => after = Some(now)
                      /\ before # None => after = before
                      /\ status \in {"applied", "ghosted"} => after = before]_vars

\* an application whose response_date was stamped by an update and whose
\* status was changed again afterwards
StampKeptAfterLaterUpdate ==
    \E i \in 1..Len(job_applications) :
        /\ job_applications[i].status = "ghosted"
        /\ job_applications[i].response_date \notin {None, Some(SuppliedDate)}

====
